---- MODULE Spec2Model ----
(***************************************************************************)
(* Storage folding (src/src/StorageFolding.cpp).                           *)
(*                                                                         *)
(* The pass rewrites the allocation of a buffer along one axis to a small  *)
(* circular region addressed by (index mod factor) and, for an async       *)
(* stage, brackets the loop body with a semaphore acquire / release.       *)
(*                                                                         *)
(* Two layers are modelled:                                                *)
(*   - the pass itself, a function from a statement tree and the schedule  *)
(*     of the realized function to a statement tree (storage_folding);     *)
(*   - the execution of the loop the pass emits (serial, or producer and   *)
(*     consumer running concurrently for an async stage).                  *)
(*                                                                         *)
(* Bounds.h, Monotonic.h, Simplify.h and ExprUsesVar.h are collaborators   *)
(* of the pass whose code is not part of the excerpt: they are modelled    *)
(* by their contract on the values the expressions take.                   *)
(***************************************************************************)
EXTENDS Integers, Naturals, Sequences, FiniteSets, TLC

VARIABLES
    pc,          \* "input", "folded", "error", then "run", "halted", "done"
    op,          \* the Realize node handed to StorageFolding::visit
    env,         \* the map from a function's name to its schedule
    stmt,        \* the statement the pass returned
    dims_folded, \* folder.dims_folded after the planner ran
    loop_max,    \* value of <loop>.loop_max when the emitted loop runs
    prod,        \* producer side of the running loop: [i, k], k a position in the body
    cons,        \* consumer side of the running loop: [i, k]
    sema,        \* value of the folding semaphore (halide_semaphore_t)
    slots,       \* the allocation: address -> index last written there
    mem,         \* the indices written so far (the unfolded allocation)
    acquired,    \* iterations whose acquire has completed
    released,    \* iterations whose release has been issued
    wrote,       \* iterations whose writes have completed
    readit,      \* iterations whose reads have completed
    visits       \* the visits the mutators of the pass have been called for
                 \* and not yet made, the next one first

vars == <<pc, op, env, stmt, dims_folded, loop_max, prod, cons, sema,
          slots, mem, acquired, released, wrote, readit, visits>>

(***************************************************************************)
(* Bounds of the model.                                                    *)
(***************************************************************************)
\* Largest value of <loop>.loop_max of a loop that is run (loop_min is LoopMin).
MaxLoopMax == 3
\* Largest constant extent bound handed to the automatic factor computation
\* beyond max_fold.
ExtentSlack == 2

LoopMin == 0

\* const int max_fold = 1024;
max_fold == 1024

Min2(a, b) == IF a <= b THEN a ELSE b
Max2(a, b) == IF a >= b THEN a ELSE b

(***************************************************************************)
(* Expressions.  An Expr of the pass is kept as a small syntax tree over   *)
(* the loop variable of the loop being visited:                            *)
(*   pl      b + s1*min(var,k) + s2*max(var-k,0), a bound computed by      *)
(*           bounds inference (affine when s1 = s2)                        *)
(*   const   an integer literal                                            *)
(*   idx     the index an access is made at                                *)
(*   min, max, add, sub, mod, le, ge, lt, and   the IR operators           *)
(*   shift   substitute(var, var + d, a)                                   *)
(*   at_min  substitute(var, loop_min, a)                                  *)
(*   select_first   select(var > loop_min, likely(a), b)                   *)
(***************************************************************************)
Const(v) == [e |-> "const", v |-> v]
Pl(b, s1, s2, k) == [e |-> "pl", b |-> b, s1 |-> s1, s2 |-> s2, k |-> k]
Idx == [e |-> "idx"]
Bin(o, a, b) == [e |-> o, a |-> a, b |-> b]
Shift(a, d) == [e |-> "shift", a |-> a, d |-> d]
AtMin(a) == [e |-> "at_min", a |-> a]
SelectFirst(a, b) == [e |-> "select_first", a |-> a, b |-> b]
Undefined == [e |-> "undefined"]

defined(x) == x.e # "undefined"

\* Value of an expression when the loop variable is i, the loop starts at lo
\* and the access index is x.  Comparisons and conjunctions give 1 or 0.
\* Integer division and remainder round towards minus infinity, as in the IR.
RECURSIVE Eval(_, _, _, _)
Eval(x, i, lo, at) ==
    CASE x.e = "const" -> x.v
      [] x.e = "pl" -> x.b + x.s1 * Min2(i, x.k) + x.s2 * Max2(i - x.k, 0)
      [] x.e = "idx" -> at
      [] x.e = "min" -> Min2(Eval(x.a, i, lo, at), Eval(x.b, i, lo, at))
      [] x.e = "max" -> Max2(Eval(x.a, i, lo, at), Eval(x.b, i, lo, at))
      [] x.e = "add" -> Eval(x.a, i, lo, at) + Eval(x.b, i, lo, at)
      [] x.e = "sub" -> Eval(x.a, i, lo, at) - Eval(x.b, i, lo, at)
      [] x.e = "mod" -> Eval(x.a, i, lo, at) % Eval(x.b, i, lo, at)
      [] x.e = "le" -> IF Eval(x.a, i, lo, at) <= Eval(x.b, i, lo, at) THEN 1 ELSE 0
      [] x.e = "ge" -> IF Eval(x.a, i, lo, at) >= Eval(x.b, i, lo, at) THEN 1 ELSE 0
      [] x.e = "lt" -> IF Eval(x.a, i, lo, at) < Eval(x.b, i, lo, at) THEN 1 ELSE 0
      [] x.e = "and" -> IF Eval(x.a, i, lo, at) = 1 /\ Eval(x.b, i, lo, at) = 1 THEN 1 ELSE 0
      [] x.e = "shift" -> Eval(x.a, i + x.d, lo, at)
      [] x.e = "at_min" -> Eval(x.a, lo, lo, at)
      [] x.e = "select_first" -> IF i > lo THEN Eval(x.a, i, lo, at) ELSE Eval(x.b, i, lo, at)

\* is_one(e): the expression is the literal 1.
is_one(x) == x.e = "const" /\ x.v = 1

(***************************************************************************)
(* The collaborators, by contract.  A symbolic statement about the loop    *)
(* variable holds when it holds for every value of the variable in a range *)
(* around the loop's range that contains every kink of the bounds.         *)
(***************************************************************************)
SymDom == (LoopMin - 1)..(MaxLoopMax + 1)

\* expr_uses_var(e, var) on a simplified bound.
expr_uses_var(x) == \E i \in SymDom : Eval(x, i, LoopMin, 0) # Eval(x, LoopMin, LoopMin, 0)

\* is_monotonic(e, var); known is FALSE when the classifier cannot see
\* through the expression.
is_monotonic(x, known) ==
    IF ~expr_uses_var(x) THEN "Constant"
    ELSE IF ~known THEN "Unknown"
    ELSE IF \A i \in SymDom : Eval(x, i, LoopMin, 0) <= Eval(x, i + 1, LoopMin, 0) THEN "Increasing"
    ELSE IF \A i \in SymDom : Eval(x, i, LoopMin, 0) >= Eval(x, i + 1, LoopMin, 0) THEN "Decreasing"
    ELSE "Unknown"

\* can_prove(c)
can_prove(c, known) == known /\ \A i \in SymDom : Eval(c, i, LoopMin, 0) = 1

\* is_const(simplify(e)): the simplifier reduces e to a literal exactly when
\* its value does not depend on the variables left in it (the loop variable
\* and loop_min).
is_const(x) == \A i \in SymDom, lo \in SymDom : Eval(x, i, lo, 0) = Eval(x, LoopMin, LoopMin, 0)

\* simplify(e) of an expression that is_const: the literal.
simplify_const(x) == Const(Eval(x, LoopMin, LoopMin, 0))

\* find_constant_bound(e, Direction::Upper, scope) with the loop variable in
\* [loop_min, loop_max], both symbolic: a literal that bounds e for every
\* value of the loop variable, when there is one and the solver finds it
\* (known).  An expression that still grows at the ends of the range has none.
SymMax(x) ==
    CHOOSE m \in {Eval(x, i, LoopMin, 0) : i \in SymDom} :
        \A i \in SymDom : Eval(x, i, LoopMin, 0) <= m

find_constant_bound(x, known) ==
    LET first == LoopMin - 1
        last == MaxLoopMax + 1
    IN  IF known /\ Eval(x, last + 1, LoopMin, 0) <= Eval(x, last, LoopMin, 0)
                 /\ Eval(x, first - 1, LoopMin, 0) <= Eval(x, first, LoopMin, 0)
        THEN Const(SymMax(x))
        ELSE Undefined

(***************************************************************************)
(* Statements.  A statement is a record tagged by node:                    *)
(*   For               name, for_type, body, box                           *)
(*   ProducerConsumer  name, is_producer, body                             *)
(*   Block             first, rest                                         *)
(*   Provide           name, args       a store to a buffer                *)
(*   Call              name, args, call_type   an evaluated load           *)
(*   Variable          name, is_handle  an evaluated variable              *)
(*   AssertStmt        condition, error                                    *)
(*   Acquire           semaphore, count, body                              *)
(*   Release           semaphore, count  (halide_semaphore_release call)   *)
(*   LetStmt           name, value, body                                   *)
(*   Realize           name, bounds, body                                  *)
(* The box of a For is what box_provided and box_required answer for its   *)
(* body and the function being folded: one record per dimension with the   *)
(* bounds pmin, pmax (provided), rmin, rmax (required) and whether the     *)
(* classifier and the bound solver see through them.  It is empty when the *)
(* body does not touch the function.                                       *)
(***************************************************************************)
For(name, for_type, body, box) ==
    [node |-> "For", name |-> name, for_type |-> for_type, body |-> body, box |-> box]
ProducerConsumer(name, is_producer, body) ==
    [node |-> "ProducerConsumer", name |-> name, is_producer |-> is_producer, body |-> body]
Block(first, rest) == [node |-> "Block", first |-> first, rest |-> rest]
Provide(name, args) == [node |-> "Provide", name |-> name, args |-> args]
Call(name, args, call_type) ==
    [node |-> "Call", name |-> name, args |-> args, call_type |-> call_type]
Variable(name, is_handle) == [node |-> "Variable", name |-> name, is_handle |-> is_handle]
AssertStmt(condition, error) ==
    [node |-> "AssertStmt", condition |-> condition, error |-> error]
Acquire(semaphore, count, body) ==
    [node |-> "Acquire", semaphore |-> semaphore, count |-> count, body |-> body]
Release(semaphore, count) == [node |-> "Release", semaphore |-> semaphore, count |-> count]
LetStmt(name, value, body) == [node |-> "LetStmt", name |-> name, value |-> value, body |-> body]
Realize(name, bounds, body) == [node |-> "Realize", name |-> name, bounds |-> bounds, body |-> body]

\* Range(min, extent)
Range(min, extent) == [min |-> min, extent |-> extent]

\* The name func + ".buffer" of the storage handle of a function.
BufferName(f) == f \o ".buffer"

HasBody(s) == s.node \in {"For", "ProducerConsumer", "Acquire", "LetStmt", "Realize"}

(***************************************************************************)
(* int64_t next_power_of_two(int64_t x):                                   *)
(*   1 << (int64_t) ceil(log2(x))                                          *)
(* for x >= 1; ceil(log2(x)) is the least k with 2^k >= x.                 *)
(***************************************************************************)
RECURSIVE Pow2(_)
Pow2(k) == IF k = 0 THEN 1 ELSE 2 * Pow2(k - 1)

RECURSIVE CeilLog2From(_, _)
CeilLog2From(x, k) == IF Pow2(k) >= x THEN k ELSE CeilLog2From(x, k + 1)

ceil_log2(x) == CeilLog2From(x, 0)

\* the power of two strictly above x
next_power_of_two_above(x) == Pow2(ceil_log2(x + 1))

next_power_of_two(x) == Pow2(ceil_log2(x))

(***************************************************************************)
(* CountProducers / count_producers: the number of produce nodes of name,  *)
(* not counting what lies inside a produce node of name.                   *)
(***************************************************************************)
RECURSIVE count_producers(_, _)
count_producers(s, name) ==
    IF s.node = "ProducerConsumer" /\ s.is_producer /\ s.name = name THEN 1
    ELSE IF s.node = "Block" THEN count_producers(s.first, name) + count_producers(s.rest, name)
    ELSE IF HasBody(s) THEN count_producers(s.body, name)
    ELSE 0

(***************************************************************************)
(* IsBufferSpecial: a variable of handle type named func + ".buffer"       *)
(* occurs in the statement.                                                *)
(***************************************************************************)
\* a detector that finds no use of the storage handle
IsBufferSpecial_Never(s, f) == FALSE

RECURSIVE IsBufferSpecial(_, _)
IsBufferSpecial(s, f) ==
    IF s.node = "Variable" THEN s.is_handle /\ s.name = BufferName(f)
    ELSE IF s.node = "Block" THEN IsBufferSpecial(s.first, f) \/ IsBufferSpecial(s.rest, f)
    ELSE IF HasBody(s) THEN IsBufferSpecial(s.body, f)
    ELSE FALSE

(***************************************************************************)
(* FoldStorageOfFunction(func, dim, factor).mutate: the index along dim    *)
(* of every Halide call and every provide of func becomes 0 when the       *)
(* factor is 1 and (index % factor) otherwise.  dim counts from 0.         *)
(*                                                                         *)
(* FoldBox is the answer of bounds inference for a body rewritten this     *)
(* way: a single point stays a single point (reduced), an interval becomes *)
(* the whole of [0, factor - 1].                                           *)
(***************************************************************************)
\* a rewrite that wraps the index by the factor also when the factor is 1
FoldIndex_AlwaysMod(x, factor) == Bin("mod", x, factor)

FoldIndex(x, factor) == IF is_one(factor) THEN Const(0) ELSE Bin("mod", x, factor)

FoldArgs(args, dim, factor) == [args EXCEPT ![dim + 1] = FoldIndex(args[dim + 1], factor)]

FoldInterval(lo, hi, factor) ==
    IF is_one(factor) THEN <<Const(0), Const(0)>>
    ELSE IF lo = hi THEN <<Bin("mod", lo, factor), Bin("mod", hi, factor)>>
    ELSE <<Const(0), Bin("sub", factor, Const(1))>>

FoldAxis(ax, factor) ==
    LET p == FoldInterval(ax.pmin, ax.pmax, factor)
        r == FoldInterval(ax.rmin, ax.rmax, factor)
    IN  [ax EXCEPT !.pmin = p[1], !.pmax = p[2], !.rmin = r[1], !.rmax = r[2]]

FoldBox(box, dim, factor) ==
    IF dim + 1 \in DOMAIN box THEN [box EXCEPT ![dim + 1] = FoldAxis(box[dim + 1], factor)] ELSE box

RECURSIVE FoldStorageOfFunction(_, _, _, _)
FoldStorageOfFunction(s, f, dim, factor) ==
    CASE s.node = "Call" ->
            IF s.name = f /\ s.call_type = "Halide"
            THEN [s EXCEPT !.args = FoldArgs(s.args, dim, factor)] ELSE s
      [] s.node = "Provide" ->
            IF s.name = f THEN [s EXCEPT !.args = FoldArgs(s.args, dim, factor)] ELSE s
      [] s.node = "Block" ->
            Block(FoldStorageOfFunction(s.first, f, dim, factor),
                  FoldStorageOfFunction(s.rest, f, dim, factor))
      [] s.node = "For" ->
            [s EXCEPT !.body = FoldStorageOfFunction(s.body, f, dim, factor),
                      !.box = FoldBox(s.box, dim, factor)]
      [] s.node \in {"ProducerConsumer", "Acquire", "LetStmt", "Realize"} ->
            [s EXCEPT !.body = FoldStorageOfFunction(s.body, f, dim, factor)]
      [] OTHER -> s

(***************************************************************************)
(* AttemptStorageFoldingOfFunction.  F is the function being folded:       *)
(* [name, storage_dims, async, explicit_only]; a storage dim is            *)
(* [var, fold_factor, fold_forward] with fold_factor Undefined when the    *)
(* schedule declares none.  A result is [stmt, folds]: the mutated         *)
(* statement and dims_folded.  Statements are compared by structure where  *)
(* the code compares pointers (same_as): every rewrite of the planner adds *)
(* a node, so the two agree.                                               *)
(***************************************************************************)
NoSemaphore == [name |-> "", var |-> Undefined, init |-> Undefined]

SemaphoreVar(name) == [e |-> "var", name |-> name]

\* box = box_union(provided, required), one dimension of it
BoxMin(ax) == Bin("min", ax.pmin, ax.rmin)
BoxMax(ax) == Bin("max", ax.pmax, ax.rmax)

\* Expr extent = simplify(max - min + 1);
Extent(ax) == Bin("add", Bin("sub", BoxMax(ax), BoxMin(ax)), Const(1))

\* an explicit factor that is used whatever the bounds mention
ExplicitFactor_Always(ax, storage_dim) == storage_dim.fold_factor

\* lines 143-151: the explicit fold factor is used only when the bounds of
\* the dimension mention the loop variable.
ExplicitFactor(ax, storage_dim) ==
    IF expr_uses_var(BoxMin(ax)) \/ expr_uses_var(BoxMax(ax))
    THEN storage_dim.fold_factor
    ELSE Undefined

\* a proof of the direction that leaves out the provided bound of an async stage
ProvenForwards_UnionOnly(ax, F) ==
    /\ ~F.explicit_only
    /\ is_monotonic(BoxMin(ax), ax.mono_known) = "Increasing"


\* lines 159-174: the direction proven by the monotonicity of the bounds.
ProvenForwards(ax, F) ==
    /\ ~F.explicit_only
    /\ is_monotonic(BoxMin(ax), ax.mono_known) = "Increasing"
    /\ (F.async => is_monotonic(ax.pmax, ax.mono_known) = "Increasing")

ProvenBackwards(ax, F) ==
    /\ ~F.explicit_only
    /\ is_monotonic(BoxMax(ax), ax.mono_known) = "Decreasing"
    /\ (F.async => is_monotonic(ax.pmin, ax.mono_known) = "Decreasing")

\* line 176: no direction proven and an explicit factor: assert the declared one
AssertsDirection(proven_forwards, proven_backwards, explicit_factor) ==
    /\ ~proven_forwards
    /\ ~proven_backwards
    /\ defined(explicit_factor)

\* a condition that asserts the backward direction whatever is declared
DirectionCondition_Backward(ax, storage_dim, F) ==
    LET c == Bin("le", Shift(BoxMax(ax), 1), BoxMax(ax))
    IN  IF F.async THEN Bin("and", c, Bin("le", Shift(ax.pmin, 1), ax.pmin)) ELSE c


\* lines 181-202: the asserted condition
DirectionCondition(ax, storage_dim, F) ==
    IF storage_dim.fold_forward
    THEN LET c == Bin("ge", Shift(BoxMin(ax), 1), BoxMin(ax))
         IN  IF F.async THEN Bin("and", c, Bin("ge", Shift(ax.pmax, 1), ax.pmax)) ELSE c
    ELSE LET c == Bin("le", Shift(BoxMax(ax), 1), BoxMax(ax))
         IN  IF F.async THEN Bin("and", c, Bin("le", Shift(ax.pmin, 1), ax.pmin)) ELSE c

\* lines 159-202: can_fold_forwards and can_fold_backwards at line 212
can_fold_forwards(proven_forwards, asserts, storage_dim) ==
    proven_forwards \/ (asserts /\ storage_dim.fold_forward)

can_fold_backwards(proven_backwards, asserts, storage_dim) ==
    proven_backwards \/ (asserts /\ ~storage_dim.fold_forward)

\* an automatic factor for every extent: the power of two above the bound
\* whatever it is, and max_fold when no bound is found
AutoFactor_AlwaysFolds(ax) ==
    LET max_extent == find_constant_bound(Extent(ax), ax.bound_known)
    IN  IF defined(max_extent) THEN Const(next_power_of_two(max_extent.v)) ELSE Const(max_fold)

\* lines 221-237: the automatic factor
AutoFactor(ax) ==
    LET max_extent == find_constant_bound(Extent(ax), ax.bound_known)
    IN  IF defined(max_extent) /\ max_extent.v <= max_fold
        THEN Const(next_power_of_two(max_extent.v))
        ELSE Undefined

\* a declared factor that is rounded to a power of two and capped like an
\* automatic one
Factor_RoundedAndCapped(explicit_factor, ax) ==
    IF defined(explicit_factor)
    THEN Const(Min2(max_fold, next_power_of_two(explicit_factor.v)))
    ELSE AutoFactor(ax)

\* lines 214-237
Factor(explicit_factor, ax) ==
    IF defined(explicit_factor) THEN explicit_factor ELSE AutoFactor(ax)

\* lines 253-265
ToAcquire(ax, forwards) ==
    IF forwards
    THEN Bin("sub", ax.pmax, Shift(ax.pmax, -1))
    ELSE Bin("sub", Shift(ax.pmin, -1), ax.pmin)

\* a release by the step of the provided bound
ToRelease_OfProvided(ax, forwards) ==
    IF forwards
    THEN Bin("sub", Shift(ax.pmin, 1), ax.pmin)
    ELSE Bin("sub", ax.pmax, Shift(ax.pmax, 1))


ToRelease(ax, forwards) ==
    IF forwards
    THEN Bin("sub", Shift(ax.rmin, 1), ax.rmin)
    ELSE Bin("sub", ax.rmax, Shift(ax.rmax, 1))

\* a difference that leaves out what the first acquire takes
Fudge_WholeExtent(ax, forwards) == AtMin(Extent(ax))


\* line 277
Fudge(ax, forwards) == AtMin(Bin("sub", Extent(ax), ToAcquire(ax, forwards)))

\* a semaphore that starts with the whole factor although the first acquire
\* takes only the difference to the iteration before the first
SemaInit_WholeFactor(ax, forwards, factor, fudge_const) == factor

\* lines 251, 278-280
SemaInit(ax, forwards, factor, fudge_const) ==
    IF fudge_const
    THEN Bin("sub", factor, simplify_const(Fudge(ax, forwards)))
    ELSE factor

\* an acquire that takes the difference to the previous iteration in the
\* first iteration too, whatever the initial count
AcquireCount_EveryIteration(ax, forwards, fudge_const) == ToAcquire(ax, forwards)

\* lines 278-282: what the Acquire node acquires
AcquireCount(ax, forwards, fudge_const) ==
    IF fudge_const
    THEN ToAcquire(ax, forwards)
    ELSE SelectFirst(ToAcquire(ax, forwards), Extent(ax))

\* a bracket that releases before the body
WrapWithSemaphore_ReleaseFirst(body, sema_var, to_acquire, to_release) ==
    Acquire(sema_var, to_acquire, Block(Release(sema_var, to_release), body))

\* lines 284-287
WrapWithSemaphore(body, sema_var, to_acquire, to_release) ==
    Acquire(sema_var, to_acquire, Block(body, Release(sema_var, to_release)))

\* a pass that trusts the declared direction: no direction assertion
WithDirectionAssert_Unasserted(body, ax, storage_dim, F) == body


\* lines 203-207: the body with the direction assertion
WithDirectionAssert(body, ax, storage_dim, F) ==
    Block(AssertStmt(DirectionCondition(ax, storage_dim, F), "halide_error_bad_fold"), body)

\* a pass that trusts the declared factor: no extent assertion
WithExtentAssert_Unchecked(body, ax, explicit_factor) == body

\* lines 216-219: the body with the extent assertion
WithExtentAssert(body, ax, explicit_factor) ==
    Block(AssertStmt(Bin("le", Extent(ax), explicit_factor),
                     "halide_error_fold_factor_too_small"), body)

\* line 249
SemaphoreName(F, n) == F.name \o ".folding_semaphore." \o ToString(n)

\* lines 244-289: the body of the loop after the fold of dimension i-1
FoldedBody(body, ax, F, i, n, factor, forwards, fudge_const) ==
    LET folded == FoldStorageOfFunction(body, F.name, i - 1, factor)
    IN  IF F.async
        THEN WrapWithSemaphore(folded, SemaphoreVar(SemaphoreName(F, n)),
                               AcquireCount(ax, forwards, fudge_const), ToRelease(ax, forwards))
        ELSE folded

\* lines 242-243, 248-251, 279, 288: the record pushed on dims_folded
FoldRecord(ax, F, i, n, factor, forwards, fudge_const) ==
    [dim |-> i - 1,
     factor |-> factor,
     semaphore |-> IF F.async
                   THEN [name |-> SemaphoreName(F, n), var |-> SemaphoreVar(SemaphoreName(F, n)),
                         init |-> SemaInit(ax, forwards, factor, fudge_const)]
                   ELSE NoSemaphore]

\* lines 291-292
NoOverlap(ax) == can_prove(Bin("lt", BoxMax(ax), Shift(BoxMin(ax), 1)), ax.mono_known)

\* a planner that takes every box as contained
box_contains_Always(box) == TRUE

\* box_contains(provided, required)
box_contains(box) ==
    \A d \in DOMAIN box :
        /\ can_prove(Bin("le", box[d].pmin, box[d].rmin), TRUE)
        /\ can_prove(Bin("le", box[d].rmax, box[d].pmax), TRUE)

\* The locals of one turn of the loop over the dimensions (lines 143-237),
\* computed once: explicit_factor, whether the direction is asserted,
\* can_fold_forwards, can_fold_backwards and factor.
AxisLocals(ax, storage_dim, explicit_factor, proven_forwards, proven_backwards) ==
    [explicit_factor |-> explicit_factor,
     asserts |-> AssertsDirection(proven_forwards, proven_backwards, explicit_factor),
     forwards |-> can_fold_forwards(proven_forwards,
                     AssertsDirection(proven_forwards, proven_backwards, explicit_factor),
                     storage_dim),
     backwards |-> can_fold_backwards(proven_backwards,
                     AssertsDirection(proven_forwards, proven_backwards, explicit_factor),
                     storage_dim),
     factor |-> Factor(explicit_factor, ax)]

AxisPlan(ax, storage_dim, F) ==
    AxisLocals(ax, storage_dim, ExplicitFactor(ax, storage_dim),
               ProvenForwards(ax, F), ProvenBackwards(ax, F))

\* lines 176-220: the body with the assertions of an explicit fold, the
\* extent assertion in front of the direction assertion
AssertedBody(body, ax, storage_dim, F, plan) ==
    IF defined(plan.explicit_factor)
    THEN WithExtentAssert(IF plan.asserts THEN WithDirectionAssert(body, ax, storage_dim, F)
                          ELSE body,
                          ax, plan.explicit_factor)
    ELSE body

\* lines 239-289: dimension i-1 is folded with a defined factor
FoldAt(F, i, body2, folds, ax, plan, fudge_const) ==
    [stmt |-> FoldedBody(body2, ax, F, i, Len(folds) + 1, plan.factor, plan.forwards, fudge_const),
     folds |-> Append(folds, FoldRecord(ax, F, i, Len(folds) + 1, plan.factor, plan.forwards,
                                        fudge_const))]

\* lines 320-324 and 297-302: the loop around the mutated body
RebuildFor(o, r) ==
    [stmt |-> IF r.stmt = o.body THEN o ELSE [o EXCEPT !.body = r.stmt],
     folds |-> r.folds]

RebuildBody(s, r) == [stmt |-> [s EXCEPT !.body = r.stmt], folds |-> r.folds]

RebuildBlock(r1, r2) == [stmt |-> Block(r1.stmt, r2.stmt), folds |-> r2.folds]

RECURSIVE Attempt(_, _, _)
RECURSIVE TryDims(_, _, _, _, _)

\* a planner that goes on after every fold
AfterFold_AlwaysGoesOn(o, F, i, ax, r) == TryDims(o, F, i - 1, r.stmt, r.folds)

\* lines 291-303: after a fold, go on with the next dimension when no value
\* passes from one iteration to the next, and return otherwise
AfterFold(o, F, i, ax, r) ==
    IF NoOverlap(ax) THEN TryDims(o, F, i - 1, r.stmt, r.folds)
    ELSE [stmt |-> r.stmt, folds |-> r.folds, returned |-> TRUE]

\* a planner that returns after the first fold at a loop
TryAxis_StopsAtFirstFold(o, F, i, body, folds, ax, storage_dim, plan) ==
    IF (plan.forwards \/ plan.backwards) /\ defined(plan.factor)
    THEN [returned |-> TRUE] @@
         FoldAt(F, i, AssertedBody(body, ax, storage_dim, F, plan), folds, ax, plan,
                F.async /\ is_const(Fudge(ax, plan.forwards)))
    ELSE TryDims(o, F, i - 1, body, folds)


\* lines 143-310: one turn of the loop over the dimensions
TryAxis(o, F, i, body, folds, ax, storage_dim, plan) ==
    IF (plan.forwards \/ plan.backwards) /\ defined(plan.factor)
    THEN AfterFold(o, F, i, ax,
                   FoldAt(F, i, AssertedBody(body, ax, storage_dim, F, plan), folds, ax, plan,
                          F.async /\ is_const(Fudge(ax, plan.forwards))))
    ELSE TryDims(o, F, i - 1, body, folds)

\* lines 133-311: the dimensions from the outermost (i = box.size()) in.
\* The result is the body and the folds when the loop over the dimensions
\* ends, or when the visit returns from within it (lines 297-302).
TryDims(o, F, i, body, folds) ==
    IF i = 0
    THEN [stmt |-> body, folds |-> folds, returned |-> FALSE]
    ELSE TryAxis(o, F, i, body, folds, o.box[i], F.storage_dims[i],
                 AxisPlan(o.box[i], F.storage_dims[i], F))

\* a planner that goes into the body of no loop
Descends_Never(o, r) == FALSE


\* line 316: the visit goes on into the body r.stmt it has built
Descends(o, r) == ~r.returned /\ box_contains(o.box)

\* lines 313-324, and lines 297-302 for a visit that returned from the loop
\* over the dimensions
AfterDims(o, F, r) ==
    RebuildFor(o, IF Descends(o, r) THEN Attempt(r.stmt, F, r.folds)
                  ELSE [stmt |-> r.stmt, folds |-> r.folds])

\* a planner that tries the dimensions at a loop of any type
VisitFor_AnyLoop(o, F, folds) == AfterDims(o, F, TryDims(o, F, Len(o.box), o.body, folds))

\* AttemptStorageFoldingOfFunction::visit of a For, lines 112-325
VisitFor(o, F, folds) ==
    IF o.for_type # "Serial" /\ o.for_type # "Unrolled"
    THEN [stmt |-> o, folds |-> folds]
    ELSE AfterDims(o, F, TryDims(o, F, Len(o.box), o.body, folds))

\* IRMutator::visit of a Block: first, then rest
AttemptRest(s, F, r1) == RebuildBlock(r1, Attempt(s.rest, F, r1.folds))

\* AttemptStorageFoldingOfFunction::mutate: lines 103-110 for a produce or
\* consume node, line 112 for a loop, the default traversal otherwise
Attempt(s, F, folds) ==
    CASE s.node = "ProducerConsumer" ->
            IF s.name = F.name THEN [stmt |-> s, folds |-> folds]
            ELSE RebuildBody(s, Attempt(s.body, F, folds))
      [] s.node = "For" -> VisitFor(s, F, folds)
      [] s.node = "Block" -> AttemptRest(s, F, Attempt(s.first, F, folds))
      [] s.node \in {"Acquire", "LetStmt", "Realize"} ->
            RebuildBody(s, Attempt(s.body, F, folds))
      [] OTHER -> [stmt |-> s, folds |-> folds]

(***************************************************************************)
(* StorageFolding::visit of a Realize, lines 366-427.  A result is     *)
(* [stmt, error, folds]: the statement, the failure raised (user_assert or *)
(* internal_assert) or "none", and the dims_folded of the planner run for  *)
(* the outermost realization.                                              *)
(***************************************************************************)
DefaultFunction == [storage_dims |-> <<>>, async |-> FALSE]

\* lines 374-375
Lookup(e, name) == IF name \in DOMAIN e THEN e[name] ELSE DefaultFunction

\* lines 378-382
HasExplicitFold(f) == \E d \in DOMAIN f.storage_dims : defined(f.storage_dims[d].fold_factor)

\* a planner that is explicit-only for several produce nodes, not for none
ExplicitOnly_SeveralOnly(body, name) == count_producers(body, name) > 1

\* line 393
ExplicitOnly(body, name) == count_producers(body, name) # 1

\* a realization that keeps the declared bounds
FoldBounds_Unchanged(bounds, folds, i) == bounds

\* lines 403-412: bounds[d] = Range(0, f) for every fold, in order
RECURSIVE FoldBounds(_, _, _)
FoldBounds(bounds, folds, i) ==
    IF i > Len(folds) THEN bounds
    ELSE FoldBounds([bounds EXCEPT ![folds[i].dim + 1] = Range(Const(0), folds[i].factor)],
                    folds, i + 1)

\* lines 408-409
FoldsInRange(bounds, folds) ==
    \A i \in DOMAIN folds : folds[i].dim >= 0 /\ folds[i].dim < Len(bounds)

\* a realization with a binding for its last fold only
WrapSemaphores_LastFoldOnly(s, folds, i) ==
    IF defined(folds[Len(folds)].semaphore.var)
    THEN LetStmt(folds[Len(folds)].semaphore.name,
                 [call |-> "halide_make_semaphore", init |-> folds[Len(folds)].semaphore.init], s)
    ELSE s


\* lines 416-424: a binding of the semaphore around the statement for every
\* fold that has one
RECURSIVE WrapSemaphores(_, _, _)
WrapSemaphores(s, folds, i) ==
    IF i > Len(folds) THEN s
    ELSE WrapSemaphores(IF defined(folds[i].semaphore.var)
                        THEN LetStmt(folds[i].semaphore.name,
                                     [call |-> "halide_make_semaphore",
                                      init |-> folds[i].semaphore.init], s)
                        ELSE s,
                        folds, i + 1)

\* lines 398-425: the realization around the planner's result r
RealizeFolded(o, r) ==
    IF r.stmt = o.body
    THEN [stmt |-> o, error |-> "none", folds |-> r.folds]
    ELSE IF r.folds = <<>>
    THEN [stmt |-> Realize(o.name, o.bounds, r.stmt), error |-> "none", folds |-> r.folds]
    ELSE IF ~FoldsInRange(o.bounds, r.folds)
    THEN [stmt |-> o, error |-> "internal_assert", folds |-> r.folds]
    ELSE [stmt |-> WrapSemaphores(Realize(o.name, FoldBounds(o.bounds, r.folds, 1), r.stmt),
                                  r.folds, 1),
          error |-> "none", folds |-> r.folds]

\* a special buffer with an explicit factor is left alone without a failure
RealizeSpecial_Silent(o, body, f) ==
    [stmt |-> IF body = o.body THEN o ELSE Realize(o.name, o.bounds, body),
     error |-> "none", folds |-> <<>>]

\* lines 377-389: the realization of a special buffer
RealizeSpecial(o, body, f) ==
    IF HasExplicitFold(f)
    THEN [stmt |-> o, error |-> "user_assert", folds |-> <<>>]
    ELSE [stmt |-> IF body = o.body THEN o ELSE Realize(o.name, o.bounds, body),
          error |-> "none", folds |-> <<>>]

\* lines 374-375, 393-394: AttemptStorageFoldingOfFunction folder(func, explicit_only)
Folder(o, body, f) ==
    [name |-> o.name, storage_dims |-> f.storage_dims, async |-> f.async,
     explicit_only |-> ExplicitOnly(body, o.name)]

\* lines 369-426, given the mutated body
VisitRealize(o, body, f) ==
    IF IsBufferSpecial(o, o.name)
    THEN RealizeSpecial(o, body, f)
    ELSE RealizeFolded(o, Attempt(body, Folder(o, body, f), <<>>))

\* line 367, then the rest of the visit unless the body failed
RealizeBody(s, b, e) ==
    IF b.error # "none" THEN [b EXCEPT !.stmt = s] ELSE VisitRealize(s, b.stmt, Lookup(e, s.name))

FirstError(s, r1, r2) ==
    IF r1.error # "none" THEN [r1 EXCEPT !.stmt = s]
    ELSE IF r2.error # "none" THEN [r2 EXCEPT !.stmt = s]
    ELSE [stmt |-> Block(r1.stmt, r2.stmt), error |-> "none", folds |-> <<>>]

InBody(s, b) ==
    [stmt |-> IF b.error # "none" THEN s ELSE [s EXCEPT !.body = b.stmt],
     error |-> b.error, folds |-> <<>>]

RECURSIVE StorageFolding(_, _)

\* StorageFolding::mutate: line 367 for a Realize, the default traversal for
\* every other node
StorageFolding(s, e) ==
    CASE s.node = "Realize" -> RealizeBody(s, StorageFolding(s.body, e), e)
      [] s.node = "Block" -> FirstError(s, StorageFolding(s.first, e), StorageFolding(s.rest, e))
      [] HasBody(s) /\ s.node # "Realize" -> InBody(s, StorageFolding(s.body, e))
      [] OTHER -> [stmt |-> s, error |-> "none", folds |-> <<>>]

(***************************************************************************)
(* storage_folding(s, env), lines 467-471, for the statement op.  The      *)
(* scopes handed to the pass have no let bindings, so the prepass          *)
(* SubstituteInConstants returns them as they are.                         *)
(***************************************************************************)
storage_folding ==
    /\ pc = "input"
    /\ \E r \in {StorageFolding(op, env)} :
           /\ pc' = IF r.error = "none" THEN "folded" ELSE r.error
           /\ stmt' = r.stmt
           /\ dims_folded' = r.folds
    /\ UNCHANGED <<visits, op, env, loop_max, prod, cons, sema, slots, mem,
                   acquired, released, wrote, readit>>

(***************************************************************************)
(* The statements handed to the pass.                                      *)
(*                                                                         *)
(* A realization of f holds a nest of loops around the produce and consume *)
(* nodes of f.  The bounds of a dimension inside a loop are windows moving *)
(* with the loop variable; Window(lo, wd, s1, s2, k) is the interval       *)
(* [lo + m(var), lo + wd - 1 + m(var)] with m piecewise linear.            *)
(***************************************************************************)
Affine(b, s) == Pl(b, s, s, 0)

Axis(pmin, pmax, rmin, rmax, mono_known, bound_known) ==
    [pmin |-> pmin, pmax |-> pmax, rmin |-> rmin, rmax |-> rmax,
     mono_known |-> mono_known, bound_known |-> bound_known]

\* provided = required = [lo + s*var, lo + wd - 1 + s*var]
Same(lo, wd, s, mk, bk) ==
    Axis(Affine(lo, s), Affine(lo + wd - 1, s), Affine(lo, s), Affine(lo + wd - 1, s), mk, bk)

AxisConst == Same(0, 3, 0, TRUE, TRUE)
AxisSlide == Same(0, 3, 1, TRUE, TRUE)
AxisSlideOpaque == Same(0, 3, 1, FALSE, TRUE)
AxisSlideUnbounded == Same(0, 3, 1, TRUE, FALSE)
AxisPoint == Same(0, 1, 1, TRUE, TRUE)
AxisBack == Same(0, 2, -1, TRUE, TRUE)
\* only the newest row is provided: values pass from one iteration to the next
AxisSlidingWindow ==
    Axis(Affine(2, 1), Affine(2, 1), Affine(0, 1), Affine(2, 1), TRUE, TRUE)
\* [0, var]: the extent grows with the loop variable
AxisGrow == Axis(Const(0), Affine(0, 1), Const(0), Affine(0, 1), TRUE, TRUE)
\* the window moves down and then up again
AxisVee == Axis(Pl(1, -1, 1, 1), Pl(2, -1, 1, 1), Pl(1, -1, 1, 1), Pl(2, -1, 1, 1), TRUE, TRUE)

\* a window wider than max_fold
AxisSlideWide == Same(0, max_fold + 1, 1, TRUE, TRUE)

OuterAxes2 == {AxisConst, AxisSlide, AxisSlideOpaque, AxisSlideUnbounded, AxisPoint,
               AxisBack, AxisSlidingWindow, AxisGrow, AxisVee, AxisSlideWide}
\* tiles of two columns: no column is shared by two iterations
AxisTile == Same(0, 2, 2, TRUE, TRUE)
\* a bound that moves up by three and down by one in turn
Jitter(b) == Bin("add", Affine(b, 1), Bin("mod", Affine(0, 2), Const(4)))
\* the provided rows move up steadily, the required rows within them do not
AxisRequiredJitters ==
    Axis(Affine(0, 1), Affine(4, 1), Jitter(0), Bin("add", Jitter(0), Const(1)), TRUE, TRUE)
\* the required rows move up steadily, the provided rows within them do not
AxisProvidedJitters == Axis(Jitter(2), Jitter(2), Affine(0, 1), Affine(4, 1), TRUE, TRUE)
\* only the newest column is provided, and no direction is proven
AxisSlidingWindowOpaque ==
    Axis(Affine(2, 1), Affine(2, 1), Affine(0, 1), Affine(2, 1), FALSE, TRUE)

OuterAxes1 == {AxisConst, AxisSlide, AxisPoint, AxisTile}

Args(n) == [d \in 1..n |-> Idx]

Produce(n) == ProducerConsumer("f", TRUE, Provide("f", Args(n)))
Consume(n) == ProducerConsumer("f", FALSE,
                               Block(Call("f", Args(n), "Halide"), Call("g", Args(n), "Halide")))

\* the produce and consume nodes at the compute level of f
Stages(shape, n) ==
    CASE shape = "one" -> Block(Produce(n), Consume(n))
      [] shape = "two" -> Block(Produce(n), Block(Produce(n), Consume(n)))
      [] shape = "none" -> Block(Provide("f", Args(n)), Consume(n))
      [] shape = "nested" ->
            Block(ProducerConsumer("f", TRUE, Block(Provide("f", Args(n)), Produce(n))), Consume(n))
      [] shape = "in_other" -> ProducerConsumer("g", TRUE, Block(Produce(n), Consume(n)))

StageShapes == {"one", "two", "none", "nested", "in_other"}

\* an inner loop over x between the loop over y and the stages, or none
InnerLoops == {<<>>,
               <<"Serial", <<AxisPoint, AxisConst>>>>,
               <<"Serial", <<AxisSlide, AxisConst>>>>,
               <<"Parallel", <<AxisPoint, AxisConst>>>>}

Nest(outer_type, outer_box, inner, shape) ==
    For("y", outer_type,
        IF inner = <<>> THEN Stages(shape, 2)
        ELSE For("x", inner[1], Stages(shape, 2), inner[2]),
        outer_box)

\* what else the allocation scope holds: a use of the storage handle of f,
\* of another buffer's handle, or of a variable of that name that is no handle
Handles == {"none", "handle", "other", "nonhandle"}

WithHandle(h, s) ==
    CASE h = "none" -> s
      [] h = "handle" -> Block(s, Variable(BufferName("f"), TRUE))
      [] h = "other" -> Block(s, Variable(BufferName("g"), TRUE))
      [] h = "nonhandle" -> Block(s, Variable(BufferName("f"), FALSE))

StorageDim(var, fold_factor, fold_forward) ==
    [var |-> var, fold_factor |-> fold_factor, fold_forward |-> fold_forward]

\* the schedules of f: an optional explicit factor on either dimension
Schedules ==
    {[storage_dims |-> <<StorageDim("x", fx, fwd), StorageDim("y", fy, fwd)>>, async |-> a] :
        fx \in {Undefined, Const(3)}, fy \in {Undefined, Const(4)},
        fwd \in BOOLEAN, a \in BOOLEAN}

DeclaredBounds(n) == [d \in 1..n |-> Range(Const(-16), Const(48))]

Scope(h, s) == Realize("f", DeclaredBounds(2), WithHandle(h, s))

PassInputs ==
    {[op |-> Scope("none", Nest("Serial", <<a1, a2>>, <<>>, shape)), env |-> [f |-> sch]] :
        a1 \in OuterAxes1, a2 \in OuterAxes2, shape \in StageShapes, sch \in Schedules}
    \cup
    {[op |-> Scope("none", Nest("Serial", <<a1, a2>>, inner, shape)), env |-> [f |-> sch]] :
        a1 \in OuterAxes1,
        a2 \in {AxisConst, AxisSlide, AxisPoint, AxisSlidingWindow, AxisSlideUnbounded},
        inner \in InnerLoops \ {<<>>}, shape \in {"one", "two"}, sch \in Schedules}
    \cup
    {[op |-> Scope("none", Nest(t, <<AxisPoint, a2>>, inner, "one")), env |-> [f |-> sch]] :
        t \in {"Unrolled", "Parallel", "Vectorized"}, a2 \in {AxisSlide, AxisPoint},
        inner \in {<<>>, <<"Serial", <<AxisPoint, AxisConst>>>>}, sch \in Schedules}
    \cup
    {[op |-> Scope("none", Nest("Serial", <<AxisSlidingWindowOpaque, a2>>, inner, "one")),
      env |-> [f |-> sch]] :
        a2 \in {AxisPoint, AxisTile}, inner \in InnerLoops \ {<<>>}, sch \in Schedules}
    \cup
    {[op |-> Scope("none", Nest("Serial", <<AxisConst, a2>>, <<>>, "one")), env |-> [f |-> sch]] :
        a2 \in {AxisRequiredJitters, AxisProvidedJitters}, sch \in Schedules}
    \cup
    {[op |-> Scope(h, Nest("Serial", <<AxisConst, a2>>, <<>>, shape)), env |-> [f |-> sch]] :
        h \in Handles \ {"none"}, a2 \in {AxisSlide, AxisPoint, AxisConst},
        shape \in {"one", "two"}, sch \in Schedules}

Idle ==
    /\ stmt = [node |-> "none"]
    /\ dims_folded = <<>>
    /\ loop_max = LoopMin
    /\ prod = [i |-> LoopMin, k |-> 1]
    /\ cons = [i |-> LoopMin, k |-> 1]
    /\ sema = 0
    /\ slots = <<>>
    /\ mem = {}
    /\ acquired = {}
    /\ released = {}
    /\ wrote = {}
    /\ readit = {}
    /\ visits = <<>>

Init ==
    /\ pc = "input"
    /\ \E x \in PassInputs : op = x.op /\ env = x.env
    /\ Idle

Next == storage_folding

Spec == Init /\ [][Next]_vars

(***************************************************************************)
(* The execution of the statement the pass returned, for a realization of  *)
(* a one-dimensional f around one loop.  In iteration var of the loop the  *)
(* produce node stores f at every index of the provided window and the     *)
(* consume node loads f at every index of the required window, each at the *)
(* address the (rewritten) index expression of the access gives.           *)
(*                                                                         *)
(* The body of the loop is run by two sides.  The producer side runs the   *)
(* acquire, the assertions and the stores; the consumer side runs the      *)
(* loads and the release, and starts iteration i when the producer side    *)
(* has finished it.  When the function is not async the producer side      *)
(* starts iteration i + 1 when the consumer side has finished iteration i: *)
(* the iterations run one after the other in program order.                *)
(***************************************************************************)
RECURSIVE TheLoop(_)
TheLoop(s) ==
    IF s.node = "For" THEN s
    ELSE IF s.node = "Block" THEN TheLoop(s.first)
    ELSE TheLoop(s.body)

RECURSIVE TheRealize(_)
TheRealize(s) == IF s.node = "Realize" THEN s ELSE TheRealize(s.body)

\* the statements of a loop body in the order they are executed
RECURSIVE Flatten(_)
Flatten(s) ==
    CASE s.node = "Block" -> Flatten(s.first) \o Flatten(s.rest)
      [] s.node = "Acquire" -> <<[node |-> "Acquire", semaphore |-> s.semaphore, count |-> s.count]>>
                               \o Flatten(s.body)
      [] s.node = "ProducerConsumer" -> Flatten(s.body)
      [] OTHER -> <<s>>

IsProducerSide(s) == s.node \in {"Acquire", "AssertStmt", "Provide"}
IsConsumerSide(s) == s.node \in {"Call", "Release"}

ProducerCode == SelectSeq(Flatten(TheLoop(stmt).body), IsProducerSide)
ConsumerCode == SelectSeq(Flatten(TheLoop(stmt).body), IsConsumerSide)

\* the windows of iteration i
RunAxis == TheLoop(stmt).box[1]
Provided(i) == Eval(RunAxis.pmin, i, LoopMin, 0)..Eval(RunAxis.pmax, i, LoopMin, 0)
Required(i) == Eval(RunAxis.rmin, i, LoopMin, 0)..Eval(RunAxis.rmax, i, LoopMin, 0)

\* the address of index a of f in iteration i for an access with arguments args
Address(args, i, a) == Eval(args[1], i, LoopMin, a)

\* the addresses of the allocation the Realize node declares
Allocation ==
    LET b == TheRealize(stmt).bounds[1]
    IN  Eval(b.min, LoopMin, LoopMin, 0)..(Eval(b.min, LoopMin, LoopMin, 0)
                                           + Eval(b.extent, LoopMin, LoopMin, 0) - 1)

Empty == <<>>

\* the allocation after storing every index of w at its address
RECURSIVE StoreAll(_, _, _, _)
StoreAll(sl, args, i, w) ==
    IF w = {} THEN sl
    ELSE LET a == CHOOSE x \in w : \A y \in w : x <= y
         IN  StoreAll([sl EXCEPT ![Address(args, i, a)] = <<a>>], args, i, w \ {a})

\* LetStmt of the semaphore (halide_make_semaphore) and Realize: the
\* semaphore gets its initial count and the allocation is made
Launch ==
    /\ pc = "folded"
    /\ pc' = "run"
    /\ sema' = IF stmt.node = "LetStmt" THEN Eval(stmt.value.init, LoopMin, LoopMin, 0) ELSE 0
    /\ slots' = [a \in Allocation |-> Empty]
    /\ UNCHANGED <<visits, op, env, stmt, dims_folded, loop_max, prod, cons, mem,
                   acquired, released, wrote, readit>>

\* the position after statement k of a side's code in iteration i
Advance(side, code) ==
    IF side.k < Len(code) THEN [side EXCEPT !.k = side.k + 1]
    ELSE [i |-> side.i + 1, k |-> 1]

ProducerReady ==
    /\ pc = "run"
    /\ prod.i <= loop_max
    /\ prod.k <= Len(ProducerCode)
    /\ (env["f"].async \/ prod.k > 1 \/ cons.i = prod.i)

\* Acquire: blocks until the semaphore holds count, then takes it
ProducerAcquire ==
    /\ ProducerReady
    /\ ProducerCode[prod.k].node = "Acquire"
    /\ \E n \in {Eval(ProducerCode[prod.k].count, prod.i, LoopMin, 0)} :
        /\ sema - n >= 0
        /\ sema' = sema - n
    /\ acquired' = acquired \cup {prod.i}
    /\ prod' = Advance(prod, ProducerCode)
    /\ UNCHANGED <<visits, pc, op, env, stmt, dims_folded, loop_max, cons, slots, mem,
                   released, wrote, readit>>

\* AssertStmt: the pipeline halts when the condition is false
ProducerAssert ==
    /\ ProducerReady
    /\ ProducerCode[prod.k].node = "AssertStmt"
    /\ IF Eval(ProducerCode[prod.k].condition, prod.i, LoopMin, 0) = 1
       THEN pc' = pc /\ prod' = Advance(prod, ProducerCode)
       ELSE pc' = "halted" /\ prod' = prod
    /\ UNCHANGED <<visits, op, env, stmt, dims_folded, loop_max, cons, sema, slots, mem,
                   acquired, released, wrote, readit>>

\* Provide: the stores of the iteration; a store outside the allocation is a fault
ProducerProvide ==
    /\ ProducerReady
    /\ ProducerCode[prod.k].node = "Provide"
    /\ IF \A a \in Provided(prod.i) : Address(ProducerCode[prod.k].args, prod.i, a) \in DOMAIN slots
       THEN /\ slots' = StoreAll(slots, ProducerCode[prod.k].args, prod.i, Provided(prod.i))
            /\ mem' = mem \cup Provided(prod.i)
            /\ wrote' = wrote \cup {prod.i}
            /\ prod' = Advance(prod, ProducerCode)
            /\ pc' = pc
       ELSE /\ pc' = "fault"
            /\ UNCHANGED <<slots, mem, wrote, prod>>
    /\ UNCHANGED <<visits, op, env, stmt, dims_folded, loop_max, cons, sema,
                   acquired, released, readit>>

ConsumerReady ==
    /\ pc = "run"
    /\ cons.i <= loop_max
    /\ cons.k <= Len(ConsumerCode)
    /\ prod.i > cons.i

\* the loads of the iteration
ConsumerCall ==
    /\ ConsumerReady
    /\ ConsumerCode[cons.k].node = "Call"
    /\ readit' = IF ConsumerCode[cons.k].name = "f" THEN readit \cup {cons.i} ELSE readit
    /\ cons' = Advance(cons, ConsumerCode)
    /\ UNCHANGED <<visits, pc, op, env, stmt, dims_folded, loop_max, prod, sema, slots, mem,
                   acquired, released, wrote>>

\* halide_semaphore_release(sema, count)
ConsumerRelease ==
    /\ ConsumerReady
    /\ ConsumerCode[cons.k].node = "Release"
    /\ sema' = sema + Eval(ConsumerCode[cons.k].count, cons.i, LoopMin, 0)
    /\ released' = released \cup {cons.i}
    /\ cons' = Advance(cons, ConsumerCode)
    /\ UNCHANGED <<visits, pc, op, env, stmt, dims_folded, loop_max, prod, slots, mem,
                   acquired, wrote, readit>>

NextRun ==
    \/ storage_folding
    \/ Launch
    \/ ProducerAcquire
    \/ ProducerAssert
    \/ ProducerProvide
    \/ ConsumerCall
    \/ ConsumerRelease

(***************************************************************************)
(* The loops that are run.  The required window is                         *)
(* [m(var), m(var) + width - 1] with m piecewise linear with a kink at     *)
(* LoopMin + 1; the provided window is the required one ("same"), the part *)
(* of it that the previous iteration did not hold ("slide", as the sliding *)
(* window pass leaves it), the required one padded by one on both sides    *)
(* ("pad", a producer that computes more than is read), or the required    *)
(* one widened to whole pairs ("round", a producer computed in steps of    *)
(* two).                                                                   *)
(***************************************************************************)
MaxWidth == 3

RunShapes == {<<-1, -1>>, <<0, 0>>, <<1, 1>>, <<2, 2>>, <<-1, 1>>, <<1, -1>>, <<1, 0>>, <<0, 1>>}

Moving(sh, b) == Pl(b, sh[1], sh[2], LoopMin + 1)

RunModes(sh) ==
    IF (sh[1] >= 0 /\ sh[2] >= 0) \/ (sh[1] <= 0 /\ sh[2] <= 0)
    THEN {"same", "slide", "pad", "round"} ELSE {"same", "pad", "round"}

RunWindow(sh, width, mode, known) ==
    LET rmin == Moving(sh, 0)
        rmax == Moving(sh, width - 1)
    IN  CASE mode = "same" -> Axis(rmin, rmax, rmin, rmax, known, known)
          [] mode = "pad" ->
                Axis(Moving(sh, -1), Moving(sh, width), rmin, rmax, known, known)
          [] mode = "round" ->
                LET pmin == Bin("sub", rmin, Bin("mod", rmin, Const(2)))
                IN  Axis(pmin, Bin("add", pmin, Const(2 * ((width + 2) \div 2) - 1)),
                         rmin, rmax, known, known)
          [] mode = "slide" ->
                IF sh[1] >= 0 /\ sh[2] >= 0
                THEN Axis(SelectFirst(Bin("max", rmin, Bin("add", Shift(rmax, -1), Const(1))), rmin),
                          rmax, rmin, rmax, known, known)
                ELSE Axis(rmin,
                          SelectFirst(Bin("min", rmax, Bin("sub", Shift(rmin, -1), Const(1))), rmax),
                          rmin, rmax, known, known)

RunSchedules ==
    {[storage_dims |-> <<StorageDim("y", fy, fwd)>>, async |-> a] :
        fy \in {Undefined, Const(3)}, fwd \in BOOLEAN, a \in BOOLEAN}

RunWindows ==
    UNION {{RunWindow(sh, w, m, known) : w \in 1..MaxWidth, m \in RunModes(sh), known \in BOOLEAN} :
           sh \in RunShapes}

\* a declared factor above max_fold that is no power of two
LargeSchedules ==
    {[storage_dims |-> <<StorageDim("y", Const(max_fold + 1), TRUE)>>, async |-> a] :
        a \in BOOLEAN}

\* three rows are provided and move up steadily; the one row required among
\* them moves up by three and down by one in turn
JitterWindow == Axis(Affine(0, 1), Affine(2, 1), Jitter(0), Jitter(0), TRUE, TRUE)

RunInputs ==
    {[op |-> Realize("f", DeclaredBounds(1), For("y", "Serial", Stages("one", 1), <<ax>>)),
      env |-> [f |-> sch]] :
        ax \in RunWindows, sch \in RunSchedules}
    \cup
    {[op |-> Realize("f", DeclaredBounds(1), For("y", "Serial", Stages("one", 1), <<ax>>)),
      env |-> [f |-> sch]] :
        ax \in {RunWindow(<<1, 1>>, MaxWidth, "same", known) : known \in BOOLEAN},
        sch \in LargeSchedules}
    \cup
    {[op |-> Realize("f", DeclaredBounds(1), For("y", "Serial", Stages("one", 1), <<ax>>)),
      env |-> [f |-> sch]] :
        ax \in {JitterWindow}, sch \in RunSchedules}

InitRun ==
    /\ pc = "input"
    /\ \E x \in RunInputs : op = x.op /\ env = x.env
    /\ stmt = [node |-> "none"]
    /\ dims_folded = <<>>
    /\ loop_max \in (MaxLoopMax - 1)..MaxLoopMax
    /\ prod = [i |-> LoopMin, k |-> 1]
    /\ cons = [i |-> LoopMin, k |-> 1]
    /\ sema = 0
    /\ slots = <<>>
    /\ mem = {}
    /\ acquired = {}
    /\ released = {}
    /\ wrote = {}
    /\ readit = {}
    /\ visits = <<>>

SpecRun == InitRun /\ [][NextRun]_vars

(***************************************************************************)
(* The pass over loops whose window has a constant extent between 1 and    *)
(* max_fold + ExtentSlack and moves up or down by one per iteration.       *)
(***************************************************************************)
FactorExtents == 1..(max_fold + ExtentSlack)

FactorInputs ==
    {[op |-> Realize("f", DeclaredBounds(1),
                     For("y", "Serial", Stages("one", 1), <<Same(0, e, s, TRUE, bk)>>)),
      env |-> [f |-> sch]] :
        e \in FactorExtents, s \in {-1, 1}, bk \in BOOLEAN,
        sch \in {x \in RunSchedules : x.storage_dims[1].fold_forward}}

InitFactor ==
    /\ pc = "input"
    /\ \E x \in FactorInputs : op = x.op /\ env = x.env
    /\ Idle

SpecFactor == InitFactor /\ [][Next]_vars

(***************************************************************************)
(* FoldStorageOfFunction alone: the rewrite of the accesses of f along the *)
(* dimension and by the factor of the fold dims_folded[1], over statements *)
(* that hold stores and loads of f and of g and calls named f that are no  *)
(* Halide calls.                                                           *)
(***************************************************************************)
RewriteIndices == {Idx, Bin("add", Idx, Const(1)), Bin("mod", Idx, Const(2)), Const(5)}

RewriteBody(a, b) ==
    Block(Provide("f", a),
          Block(Call("f", b, "Halide"),
                Block(Call("f", b, "Image"),
                      Block(Provide("g", a),
                            Block(Call("g", b, "Halide"), Call("f", a, "Extern"))))))

RewriteWrap(w, s) ==
    CASE w = "none" -> s
      [] w = "loop" -> For("y", "Serial", ProducerConsumer("f", TRUE, s), <<AxisSlide, AxisSlide>>)
      [] w = "acquire" -> LetStmt("s", [call |-> "halide_make_semaphore", init |-> Const(1)],
                                  Realize("f", DeclaredBounds(2),
                                          Acquire(SemaphoreVar("s"), Const(1), s)))

RewriteInputs ==
    {RewriteWrap(w, RewriteBody(<<a1, a2>>, <<b1, b2>>)) :
        w \in {"none", "loop", "acquire"}, a1 \in {Idx, Const(5)},
        a2 \in RewriteIndices, b1 \in RewriteIndices, b2 \in {Idx, Bin("add", Idx, Const(1))}}

RewriteFactors == {Const(1), Const(3), Const(4), Bin("add", Const(0), Const(1))}

InitRewrite ==
    /\ pc = "rewrite"
    /\ op \in RewriteInputs
    /\ env = [f |-> DefaultFunction]
    /\ stmt = [node |-> "none"]
    /\ \E d \in 0..1, factor \in RewriteFactors :
          dims_folded = <<[dim |-> d, factor |-> factor, semaphore |-> NoSemaphore]>>
    /\ loop_max = LoopMin
    /\ prod = [i |-> LoopMin, k |-> 1]
    /\ cons = [i |-> LoopMin, k |-> 1]
    /\ sema = 0
    /\ slots = <<>>
    /\ mem = {}
    /\ acquired = {}
    /\ released = {}
    /\ wrote = {}
    /\ readit = {}
    /\ visits = <<>>

\* FoldStorageOfFunction(func, dim, factor).mutate(op), as at line 244
fold_storage ==
    /\ pc = "rewrite"
    /\ pc' = "rewritten"
    /\ stmt' = FoldStorageOfFunction(op, "f", dims_folded[1].dim, dims_folded[1].factor)
    /\ UNCHANGED <<visits, op, env, dims_folded, loop_max, prod, cons, sema, slots, mem,
                   acquired, released, wrote, readit>>

SpecRewrite == InitRewrite /\ [][fold_storage]_vars

(***************************************************************************)
(* SubstituteInConstants, lines 433-465, over statements of let bindings.  *)
(*                                                                         *)
(* An expression here is a literal, a variable Var(name) or a sum; a       *)
(* statement is a LetStmt, a Block or Evaluate(value), a use of the value. *)
(* The scope (Scope<Expr>) holds a stack of expressions for every name.    *)
(***************************************************************************)
Var(name) == [e |-> "var", name |-> name]
Evaluate(value) == [node |-> "Evaluate", value |-> value]

LetNames == {"x", "y"}

\* Scope<Expr>: empty, contains, get (the top of the stack), push
EmptyScope == [n \in LetNames |-> <<>>]
scope_contains(scope, name) == scope[name] # <<>>
scope_get(scope, name) == scope[name][Len(scope[name])]
scope_push(scope, name, value) == [scope EXCEPT ![name] = Append(@, value)]

\* lines 458-464 with the default traversal of a sum
RECURSIVE SubstituteExpr(_, _)
SubstituteExpr(x, scope) ==
    CASE x.e = "var" -> IF scope_contains(scope, x.name) THEN scope_get(scope, x.name) ELSE x
      [] x.e = "add" -> Bin("add", SubstituteExpr(x.a, scope), SubstituteExpr(x.b, scope))
      [] OTHER -> x

\* an expression without a variable, the ones simplify reduces to a literal
RECURSIVE IsClosed(_)
IsClosed(x) ==
    CASE x.e = "var" -> FALSE
      [] x.e = "add" -> IsClosed(x.a) /\ IsClosed(x.b)
      [] OTHER -> TRUE

\* simplify(e): a closed expression becomes its literal
simplify(x) == IF IsClosed(x) THEN Const(Eval(x, LoopMin, LoopMin, 0)) ELSE x

\* the scope the body of a LetStmt is mutated in: the binding is pushed when
\* its value is a literal (lines 443-449); the pop at line 446 is the return
\* to the caller's scope
LetScope(scope, name, value) ==
    IF value.e = "const" THEN scope_push(scope, name, value) ELSE scope

\* lines 451-455
RebuildLet(s, value, body) ==
    IF body = s.body /\ value = s.value THEN s ELSE LetStmt(s.name, value, body)

RECURSIVE SubstituteInConstants(_, _)
SubstituteInConstants(s, scope) ==
    CASE s.node = "LetStmt" ->
            RebuildLet(s, simplify(SubstituteExpr(s.value, scope)),
                       SubstituteInConstants(s.body,
                           LetScope(scope, s.name, simplify(SubstituteExpr(s.value, scope)))))
      [] s.node = "Block" ->
            Block(SubstituteInConstants(s.first, scope), SubstituteInConstants(s.rest, scope))
      [] s.node = "Evaluate" -> Evaluate(SubstituteExpr(s.value, scope))
      [] OTHER -> s

\* the statements: up to three nested bindings of x and y, each followed by
\* uses of both names, with a use after the scope of the inner bindings
LetValues == {Const(1), Const(2), Var("x"), Bin("add", Var("y"), Const(1)),
              Bin("add", Const(1), Const(2))}

Uses == Block(Evaluate(Var("x")), Evaluate(Bin("add", Var("y"), Const(0))))

LetInputs ==
    {LetStmt(n1, v1,
             Block(Uses,
                   Block(LetStmt(n2, v2, Block(Uses, LetStmt(n3, v3, Uses))), Uses))) :
        n1 \in LetNames, n2 \in LetNames, n3 \in LetNames,
        v1 \in LetValues, v2 \in LetValues, v3 \in LetValues}

InitLets ==
    /\ pc = "lets"
    /\ op \in LetInputs
    /\ env = [f |-> DefaultFunction]
    /\ Idle

\* line 468
substitute_in_constants ==
    /\ pc = "lets"
    /\ pc' = "substituted"
    /\ stmt' = SubstituteInConstants(op, EmptyScope)
    /\ UNCHANGED <<visits, op, env, dims_folded, loop_max, prod, cons, sema, slots, mem,
                   acquired, released, wrote, readit>>

SpecLets == InitLets /\ [][substitute_in_constants]_vars

(***************************************************************************)
(* The pass, one visit at a time.  storage_folding calls                   *)
(* StorageFolding::mutate for the statement; a visit calls mutate for the  *)
(* statements below it (IRMutator), visit(Realize) calls the planner's     *)
(* mutate for the body after its own visit of the body has returned (lines *)
(* 367, 393-396), and the planner's visit(For) calls mutate for the body   *)
(* it has built (line 317).  visits holds the calls not yet made: [by, on, *)
(* from, F] is a call by the mutator by ("orchestrator", "planner", or     *)
(* "realize" for lines 369-426 of visit(Realize)) for the statement on,    *)
(* made by the visit of the statement from, with the planner's function F. *)
(***************************************************************************)
NoStatement == [node |-> "none"]
NoFunction == [name |-> "", storage_dims |-> <<>>, async |-> FALSE, explicit_only |-> FALSE]

Visit(by, on, from, F) == [by |-> by, on |-> on, from |-> from, F |-> F]

\* IRMutator::visit: the statements the default visit of s calls mutate for
Children(s) ==
    IF s.node = "Block" THEN <<s.first, s.rest>>
    ELSE IF HasBody(s) THEN <<s.body>>
    ELSE <<>>

CallsFor(by, children, from, F) ==
    [k \in 1..Len(children) |-> Visit(by, children[k], from, F)]

\* StorageFolding::mutate of v.on: line 367 and then the rest of the visit
\* for a Realize, the default traversal for every other node
OrchestratorCalls(v) ==
    IF v.on.node = "Realize"
    THEN <<Visit("orchestrator", v.on.body, v.on, NoFunction),
           Visit("realize", v.on, v.from, NoFunction)>>
    ELSE CallsFor("orchestrator", Children(v.on), v.on, NoFunction)

\* lines 377-382: the user_assert of a special buffer with an explicit factor
RealizeFails(o, e) == IsBufferSpecial(o, o.name) /\ HasExplicitFold(Lookup(e, o.name))

\* lines 369-396 of visit(Realize) with the mutated body: folder.mutate(body)
\* unless the buffer is special
RealizeCalls(v, body, e) ==
    IF IsBufferSpecial(v.on, v.on.name) THEN <<>>
    ELSE <<Visit("planner", body, v.on, Folder(v.on, body, Lookup(e, v.on.name)))>>

\* a planner whose visit of a loop calls mutate for the loop itself
PlannerCalls_SameLoop(v, r) ==
    IF v.on.node = "For" THEN <<Visit("planner", v.on, v.on, v.F)>>
    ELSE CallsFor("planner", Children(v.on), v.on, v.F)


\* AttemptStorageFoldingOfFunction::mutate of v.on with r the result of the
\* loop over the dimensions when v.on is a serial or unrolled loop
PlannerCalls(v, r) ==
    CASE v.on.node = "ProducerConsumer" ->
            IF v.on.name = v.F.name THEN <<>>
            ELSE CallsFor("planner", Children(v.on), v.on, v.F)
      [] v.on.node = "For" ->
            IF v.on.for_type # "Serial" /\ v.on.for_type # "Unrolled" THEN <<>>
            ELSE IF Descends(v.on, r) THEN <<Visit("planner", r.stmt, v.on, v.F)>>
            ELSE <<>>
      [] OTHER -> CallsFor("planner", Children(v.on), v.on, v.F)

\* the loop over the dimensions of a visit of the planner, when it has one
DimsOf(v, folds) ==
    IF v.by = "planner" /\ v.on.node = "For" /\ v.on.for_type \in {"Serial", "Unrolled"}
    THEN TryDims(v.on, v.F, Len(v.on.box), v.on.body, folds)
    ELSE [stmt |-> v.on, folds |-> folds, returned |-> TRUE]

\* line 469: StorageFolding(env).mutate(s)
enter ==
    /\ pc = "input"
    /\ pc' = "visiting"
    /\ visits' = <<Visit("orchestrator", op, NoStatement, NoFunction)>>
    /\ UNCHANGED <<op, env, stmt, dims_folded, loop_max, prod, cons, sema, slots, mem,
                   acquired, released, wrote, readit>>

\* one visit: the calls it makes are the next ones; the planner of a
\* realization starts with no folds and a visit of a loop adds its folds
mutate ==
    /\ pc = "visiting"
    /\ visits # <<>>
    /\ \E v \in {Head(visits)} :
        \E r \in {DimsOf(v, dims_folded)} :
            IF v.by = "realize" /\ RealizeFails(v.on, env)
            THEN /\ pc' = "user_assert"
                 /\ visits' = <<>>
                 /\ dims_folded' = <<>>
            ELSE /\ pc' = pc
                 /\ visits' = (CASE v.by = "orchestrator" -> OrchestratorCalls(v)
                                 [] v.by = "realize" ->
                                       RealizeCalls(v, StorageFolding(v.on.body, env).stmt, env)
                                 [] v.by = "planner" -> PlannerCalls(v, r))
                               \o Tail(visits)
                 /\ dims_folded' = IF v.by = "realize" THEN <<>> ELSE r.folds
    /\ UNCHANGED <<op, env, stmt, loop_max, prod, cons, sema, slots, mem,
                   acquired, released, wrote, readit>>

\* line 470: every visit has returned, the statement is the result
leave ==
    /\ pc = "visiting"
    /\ visits = <<>>
    /\ \E r \in {StorageFolding(op, env)} :
           /\ pc' = IF r.error = "none" THEN "folded" ELSE r.error
           /\ stmt' = r.stmt
           /\ dims_folded' = r.folds
    /\ UNCHANGED <<visits, op, env, loop_max, prod, cons, sema, slots, mem,
                   acquired, released, wrote, readit>>

NextVisits ==
    \/ enter
    \/ mutate
    \/ leave

SpecVisits == Init /\ [][NextVisits]_vars


(***************************************************************************)
(* Properties.                                                             *)
(***************************************************************************)
Async == env["f"].async
Folded == dims_folded # <<>>
Running == pc = "run"

\* the arguments of the load of f in the loop body
LoadArgs ==
    LET c == SelectSeq(ConsumerCode, LAMBDA x : x.node = "Call" /\ x.name = "f")
    IN  c[1].args

\* every index of the required window of iteration i that has been stored is
\* found at its address
ReadsSee(i) ==
    \A a \in Required(i) :
        a \in mem => /\ Address(LoadArgs, i, a) \in DOMAIN slots
                     /\ slots[Address(LoadArgs, i, a)] = <<a>>

\* C1: in a loop folded for a function that is not async, every iteration
\* finds each index it reads at address (index mod factor), inside the folded
\* allocation: no store to another index of the same slot, in this or an
\* earlier iteration, has replaced it.
C1_FoldedReadsSeeTheirValues ==
    (Folded /\ ~Async) =>
        /\ pc # "fault"
        /\ (Running /\ cons.i <= loop_max /\ prod.i > cons.i) => ReadsSee(cons.i)

\* a slot of the folded allocation has been reused for a second index and
\* the iteration being read still finds all its values
C1_Witness ==
    /\ Folded /\ ~Async /\ Running
    /\ cons.i <= loop_max /\ prod.i > cons.i /\ cons.i > LoopMin
    /\ Required(cons.i) \subseteq mem
    /\ \E a \in mem : a \notin Required(cons.i)
                      /\ \E b \in Required(cons.i) : slots[Address(LoadArgs, cons.i, b)] = <<b>>
                                                     /\ Address(LoadArgs, cons.i, b)
                                                        = Address(LoadArgs, cons.i, a)

\* the iterations that have been produced and whose loads have not been done
Pending == {j \in LoopMin..loop_max : j < prod.i /\ j \notin readit}

\* the count the producer side needs for the acquire it stands at
Wanted == Eval(ProducerCode[prod.k].count, prod.i, LoopMin, 0)

\* the producer side stands at an acquire that the semaphore does not allow
Blocked ==
    /\ Running /\ prod.i <= loop_max
    /\ ProducerCode[prod.k].node = "Acquire"
    /\ sema < Wanted

\* C2: in a loop folded for an async function, whatever the interleaving of
\* the two sides that the semaphore allows, every iteration that has been
\* produced and not yet read finds each index it reads at address
\* (index mod factor): the producer side has not stored another index there.
C2_AsyncProducerKeepsUnreadValues ==
    (Folded /\ Async) =>
        /\ pc # "fault"
        /\ Running => \A j \in Pending : ReadsSee(j)

\* the producer side is an iteration ahead, waits for slots at its acquire,
\* and a slot has already been reused
C2_Witness ==
    /\ Folded /\ Async /\ Blocked
    /\ prod.i > cons.i + 1
    /\ \A j \in Pending : ReadsSee(j) /\ Required(j) \subseteq mem
    /\ \E a \in mem : \E sl \in DOMAIN slots : slots[sl] # Empty /\ slots[sl] # <<a>>
                                              /\ Address(LoadArgs, LoopMin, a) = sl

\* the extent of the window of the loop of the input, a constant
InputExtent ==
    LET ax == op.body.box[1]
    IN  Eval(ax.rmax, LoopMin, LoopMin, 0) - Eval(ax.rmin, LoopMin, LoopMin, 0) + 1

Automatic == \A d \in DOMAIN env["f"].storage_dims : ~defined(env["f"].storage_dims[d].fold_factor)

PowersOfTwo == {2 ^ k : k \in 0..10}

\* C3: a factor chosen by the pass for a window whose extent is at most e is
\* the smallest power of two that is at least e, and at most 1024 (4 for
\* e = 3, 4 for e = 4, 1 for e = 1); an extent above 1024 gets no fold.
C3_AutomaticFactorIsNextPowerOfTwo ==
    (pc = "folded" /\ Automatic) =>
        /\ \A k \in DOMAIN dims_folded :
              LET f == dims_folded[k].factor.v
              IN  /\ f \in PowersOfTwo
                  /\ f >= InputExtent
                  /\ f <= 1024
                  /\ \A g \in PowersOfTwo : g >= InputExtent => f <= g
                  /\ (InputExtent \in {3, 4} => f = 4)
                  /\ (InputExtent = 1 => f = 1)
        /\ (InputExtent > 1024 => dims_folded = <<>>)

\* an automatic fold with a factor above the extent
C3_Witness ==
    /\ pc = "folded" /\ Automatic
    /\ Len(dims_folded) = 1
    /\ dims_folded[1].factor.v > InputExtent
    /\ InputExtent > 512

\* an extent above 1024 that the pass left unfolded although its bound is known
C3_WitnessTooLarge ==
    /\ pc = "folded" /\ Automatic
    /\ InputExtent > 1024 /\ op.body.box[1].bound_known
    /\ dims_folded = <<>>

\* the direction the loop of the run was folded in
RunForwards ==
    AxisPlan(op.body.box[1], env["f"].storage_dims[1],
             [name |-> "f", storage_dims |-> env["f"].storage_dims,
              async |-> env["f"].async, explicit_only |-> FALSE]).forwards

Iterations == LoopMin..loop_max
At(x, i) == Eval(x, i, LoopMin, 0)
InWindow == op.body.box[1]

\* the count the semaphore is created with and the factor of the fold
InitialCount == At(dims_folded[1].semaphore.init, LoopMin)
RunFactor == At(dims_folded[1].factor, LoopMin)

\* the extent of the union of the windows in iteration i
ExtentAt(i) ==
    Max2(At(InWindow.pmax, i), At(InWindow.rmax, i))
    - Min2(At(InWindow.pmin, i), At(InWindow.rmin, i)) + 1

\* the slots that come into use in iteration i: the difference of the
\* provided window to the one of the iteration before
NewSlots(i) ==
    IF RunForwards THEN At(InWindow.pmax, i) - At(InWindow.pmax, i - 1)
    ELSE At(InWindow.pmin, i - 1) - At(InWindow.pmin, i)

\* to_acquire of iteration i: in the first iteration the whole extent, unless
\* the initial count was reduced for it
to_acquire ==
    [i \in Iterations |->
        IF i = LoopMin /\ InitialCount = RunFactor THEN ExtentAt(i) ELSE NewSlots(i)]

\* to_release of iteration i: the slots the required window leaves behind
to_release ==
    [i \in Iterations |->
        IF RunForwards THEN At(InWindow.rmin, i + 1) - At(InWindow.rmin, i)
        ELSE At(InWindow.rmax, i) - At(InWindow.rmax, i + 1)]

RECURSIVE Sum(_, _)
Sum(f, S) == IF S = {} THEN 0 ELSE LET x == CHOOSE y \in S : TRUE IN f[x] + Sum(f, S \ {x})

LoopDone == pc = "run" /\ prod.i > loop_max /\ cons.i > loop_max

\* C4: at every point of the run of a loop folded for an async function the
\* count of the semaphore is the initial count minus to_acquire of the
\* iterations that have acquired plus to_release of the iterations that have
\* released; when the loop is done, the sum of to_acquire over all iterations
\* is the sum of to_release plus the initial count minus the count left.
C4_SlotAccountingIsConserved ==
    (Folded /\ Async /\ pc \in {"run", "halted", "fault"}) =>
        /\ sema = InitialCount - Sum(to_acquire, acquired) + Sum(to_release, released)
        /\ LoopDone => Sum(to_acquire, Iterations)
                       = Sum(to_release, Iterations) + InitialCount - sema

\* the loop of an async fold is done after acquires and releases of more
\* than one slot in total, with the whole extent acquired in the first iteration
C4_Witness ==
    /\ Folded /\ Async /\ LoopDone
    /\ InitialCount = RunFactor
    /\ to_acquire[LoopMin] = ExtentAt(LoopMin)
    /\ NewSlots(LoopMin) # ExtentAt(LoopMin)
    /\ Sum(to_acquire, Iterations) > to_acquire[LoopMin]
    /\ Sum(to_release, Iterations) > 1

\* every node of a statement
RECURSIVE NodeSeq(_)
NodeSeq(s) ==
    <<s>> \o (IF s.node = "Block" THEN NodeSeq(s.first) \o NodeSeq(s.rest)
              ELSE IF HasBody(s) THEN NodeSeq(s.body)
              ELSE <<>>)

\* the nodes of a statement of the given kinds
Nodes(s, kinds) ==
    LET ns == NodeSeq(s) IN {ns[k] : k \in {j \in DOMAIN ns : ns[j].node \in kinds}}

\* the arguments of the loads and stores of f in a statement
Accesses(s) ==
    {n.args : n \in {m \in Nodes(s, {"Call", "Provide"}) : m.name = "f"}}

Assertions(s) == Nodes(s, {"AssertStmt"})
Loops(s) == Nodes(s, {"For"})
\* the positions of the produce nodes of f among the nodes of a statement
ProduceNodes(s) ==
    LET ns == NodeSeq(s)
    IN  {k \in DOMAIN ns : ns[k].node = "ProducerConsumer" /\ ns[k].is_producer /\ ns[k].name = "f"}

\* the factor the schedule declares for dimension d (from 1), or Undefined
Declared(d) == env["f"].storage_dims[d].fold_factor

\* the folds recorded for dimension d (from 1)
FoldsOf(d) == {k \in DOMAIN dims_folded : dims_folded[k].dim = d - 1}

\* the inputs of Spec nest produce nodes of f only in the shape "nested",
\* where the outer one counts: the count is 0 for "none", 2 for "two", else 1
ProduceBlocks ==
    LET ns == NodeSeq(op)
        n == Cardinality(ProduceNodes(op))
    IN  IF \E k \in ProduceNodes(op) : ProduceNodes(ns[k].body) # {} THEN n - 1 ELSE n

\* C5: when the allocation scope of f holds no produce node of f or more
\* than one, every fold recorded uses the factor the schedule declares for
\* its dimension, also for windows that are monotonic in the loop variable.
C5_NoAutomaticFoldUnlessOneProducer ==
    (pc = "folded" /\ ProduceBlocks # 1) =>
        \A k \in DOMAIN dims_folded :
            /\ defined(Declared(dims_folded[k].dim + 1))
            /\ dims_folded[k].factor = Declared(dims_folded[k].dim + 1)

\* two produce nodes, a window that moves up with the loop, a factor
\* declared for y only: y is folded by 4 and x, which has no declared
\* factor, is not folded
C5_Witness ==
    /\ pc = "folded" /\ ProduceBlocks = 2
    /\ TheLoop(op).box[2] = AxisSlide /\ TheLoop(op).box[1] = AxisPoint
    /\ defined(Declared(2)) /\ ~defined(Declared(1))
    /\ FoldsOf(2) # {} /\ FoldsOf(1) = {}

\* no produce node and no declared factor: the moving window is not folded
C5_WitnessNone ==
    /\ pc = "folded" /\ ProduceBlocks = 0
    /\ TheLoop(op).box[2] = AxisSlide
    /\ ~defined(Declared(2)) /\ ~defined(Declared(1))
    /\ dims_folded = <<>> /\ stmt = op

\* the value of the bounds of an axis does not change with the loop variable
Still(ax) ==
    \A i \in SymDom :
        /\ At(BoxMin(ax), i) = At(BoxMin(ax), LoopMin)
        /\ At(BoxMax(ax), i) = At(BoxMax(ax), LoopMin)

\* the assertions of a fold of an axis: on its extent and on its direction
AssertionsAbout(ax, s) ==
    {n \in Assertions(s) :
        \/ n.condition.e = "le" /\ n.condition.a = Extent(ax)
        \/ \E sd \in {env["f"].storage_dims[d] : d \in DOMAIN env["f"].storage_dims} :
              \E as \in BOOLEAN :
                 n.condition = DirectionCondition(ax, sd, [async |-> as])}

\* C6: a dimension whose bounds mention the loop variable of no loop around
\* the accesses gets no fold and no rewritten access, and no loop of the
\* result carries an assertion about an axis that does not move with it,
\* whatever factor and direction the schedule declares.
C6_StillAxisIsNotFolded ==
    pc = "folded" =>
        /\ \A d \in 1..2 :
              (\A l \in Loops(op) : Still(l.box[d])) =>
                  /\ FoldsOf(d) = {}
                  /\ \A args \in Accesses(stmt) : args[d] = Idx
        /\ \A l \in Loops(op) : \A d \in 1..2 :
              Still(l.box[d]) => AssertionsAbout(l.box[d], stmt) = {}

\* x does not move with the loop and has a declared factor, y moves and is
\* folded with its declared factor: only y is rewritten and asserted
C6_Witness ==
    /\ pc = "folded"
    /\ Cardinality(Loops(op)) = 1
    /\ Still(TheLoop(op).box[1]) /\ ~Still(TheLoop(op).box[2])
    /\ defined(Declared(1)) /\ defined(Declared(2))
    /\ FoldsOf(1) = {} /\ FoldsOf(2) # {}
    /\ Assertions(stmt) # {}
    /\ \A args \in Accesses(stmt) : args[1] = Idx /\ args[2] # Idx

\* the storage handle of f is used in the allocation scope
HandleUsed ==
    \E n \in Nodes(op, {"Variable"}) : n.is_handle /\ n.name = "f.buffer"

AnyDeclared == \E d \in DOMAIN env["f"].storage_dims : defined(Declared(d))

\* C7: when the storage handle of f is used in its allocation scope and the
\* schedule declares a factor for a dimension of f, the pass ends with the
\* user error and no folded allocation.
C7_SpecialWithExplicitFactorFails ==
    (pc # "input" /\ HandleUsed /\ AnyDeclared) =>
        /\ pc = "user_assert"
        /\ dims_folded = <<>>
        /\ stmt = op

C7_Witness ==
    /\ pc = "user_assert" /\ HandleUsed /\ AnyDeclared
    /\ TheLoop(op).box[2] = AxisSlide
    /\ stmt = op

\* C8: when the storage handle of f is used in its allocation scope the pass
\* returns the allocation as it was: the declared bounds, every load and
\* store, no assertion, no semaphore, no fold recorded.
C8_SpecialBufferIsUntouched ==
    (pc # "input" /\ HandleUsed) =>
        /\ dims_folded = <<>>
        /\ stmt = op
        /\ TheRealize(stmt).bounds = op.bounds
        /\ Accesses(stmt) = Accesses(op)
        /\ Assertions(stmt) = {}
        /\ Nodes(stmt, {"Acquire", "LetStmt"}) = {}

\* a handle use, one produce node, no declared factor and a window that
\* moves up with the loop: the pass is done and nothing is folded
C8_Witness ==
    /\ pc = "folded" /\ HandleUsed /\ ~AnyDeclared
    /\ ProduceBlocks = 1
    /\ TheLoop(op).box[2] = AxisSlide
    /\ stmt = op /\ dims_folded = <<>>

\* the realization of f in the result
Result == TheRealize(stmt)

\* C10: in the result the bound of a dimension with a recorded fold is
\* [0, factor) and the bound of every other dimension is the declared one;
\* without a recorded fold no bound changes and no semaphore is bound.
C10_BoundsFollowTheFolds ==
    pc = "folded" =>
        /\ \A d \in DOMAIN op.bounds :
              /\ \A k \in FoldsOf(d) : Result.bounds[d] = Range(Const(0), dims_folded[k].factor)
              /\ FoldsOf(d) = {} => Result.bounds[d] = op.bounds[d]
              /\ (Result.bounds[d].min = Const(0)
                  /\ Result.bounds[d].extent \in {dims_folded[k].factor : k \in DOMAIN dims_folded})
                 => FoldsOf(d) # {}
        /\ dims_folded = <<>> =>
              /\ Result.bounds = op.bounds
              /\ Nodes(stmt, {"LetStmt"}) = {}

\* one dimension folded and the other not
C10_Witness ==
    /\ pc = "folded"
    /\ FoldsOf(2) # {} /\ FoldsOf(1) = {}
    /\ Result.bounds[2] = Range(Const(0), dims_folded[1].factor)
    /\ Result.bounds[1] = op.bounds[1]
    /\ Result.bounds[2] # op.bounds[2]

\* nothing to fold: a loop that is not serial
C10_WitnessNoFold ==
    /\ pc = "folded"
    /\ dims_folded = <<>>
    /\ TheLoop(op).for_type = "Parallel"
    /\ stmt = op

\* C9: in the run of the loop emitted for an async fold, an iteration has
\* acquired its slots whenever it has stored to f, and has done its loads of
\* f whenever it has released.
C9_AcquireBeforeWritesReleaseAfterReads ==
    (Folded /\ Async /\ pc \in {"run", "halted", "fault"}) =>
        /\ wrote \subseteq acquired
        /\ released \subseteq readit

\* an iteration has acquired and not yet stored while an earlier one has
\* loaded and released
C9_Witness ==
    /\ Folded /\ Async /\ Running
    /\ prod.i \in acquired /\ prod.i \notin wrote
    /\ released # {} /\ released \subseteq readit
    /\ wrote # {} /\ wrote \subseteq acquired

\* a store to f or a Halide call of f
IsAccessOf(n) ==
    \/ n.node = "Provide" /\ n.name = "f"
    \/ n.node = "Call" /\ n.name = "f" /\ n.call_type = "Halide"

\* the index the rewrite by the fold dims_folded[1] gives for index x
Wrapped(x) ==
    IF dims_folded[1].factor = Const(1) THEN Const(0)
    ELSE [e |-> "mod", a |-> x, b |-> dims_folded[1].factor]

RewrittenArgs(args) ==
    [j \in DOMAIN args |-> IF j = dims_folded[1].dim + 1 THEN Wrapped(args[j]) ELSE args[j]]

\* C11: the rewrite for buffer f, dimension d and factor puts 0 (factor 1)
\* or (index mod factor) at position d of every store to f and every Halide
\* call of f, and leaves every other index of f, every access to another
\* buffer and every other call as it was.
C11_RewriteTouchesOnlyTheFoldedIndex ==
    pc = "rewritten" =>
        LET old == NodeSeq(op)
            new == NodeSeq(stmt)
        IN  /\ Len(new) = Len(old)
            /\ \A k \in DOMAIN old :
                  /\ new[k].node = old[k].node
                  /\ old[k].node \in {"Provide", "Call"} =>
                        IF IsAccessOf(old[k])
                        THEN new[k] = [old[k] EXCEPT !.args = RewrittenArgs(old[k].args)]
                        ELSE new[k] = old[k]

\* a rewrite by factor 1 along the second dimension: the stores and loads of
\* f have 0 there and their first index as before, g is as before
C11_Witness ==
    /\ pc = "rewritten"
    /\ dims_folded[1].dim = 1 /\ dims_folded[1].factor = Const(1)
    /\ \E k \in DOMAIN NodeSeq(op) :
          /\ NodeSeq(op)[k].node = "Provide" /\ NodeSeq(op)[k].name = "f"
          /\ NodeSeq(op)[k].args[2] # Const(0)
          /\ NodeSeq(stmt)[k].args[2] = Const(0)
          /\ NodeSeq(stmt)[k].args[1] = NodeSeq(op)[k].args[1]
    /\ \E k \in DOMAIN NodeSeq(op) :
          /\ NodeSeq(op)[k].node = "Call" /\ NodeSeq(op)[k].name = "g"
          /\ NodeSeq(stmt)[k] = NodeSeq(op)[k]

\* the values of the free names of a statement
Valuations == [LetNames -> {10, 20}]

RECURSIVE ValueOf(_, _)
ValueOf(x, rho) ==
    CASE x.e = "var" -> rho[x.name]
      [] x.e = "add" -> ValueOf(x.a, rho) + ValueOf(x.b, rho)
      [] OTHER -> x.v

\* the values a statement uses, in order, when the free names have the
\* values rho
RECURSIVE Meaning(_, _)
Meaning(s, rho) ==
    CASE s.node = "LetStmt" -> Meaning(s.body, [rho EXCEPT ![s.name] = ValueOf(s.value, rho)])
      [] s.node = "Block" -> Meaning(s.first, rho) \o Meaning(s.rest, rho)
      [] s.node = "Evaluate" -> <<ValueOf(s.value, rho)>>
      [] OTHER -> <<>>

\* C12: the statement the prepass returns uses the same values as the
\* statement it was given, whatever the values of the free names: a name is
\* replaced by a literal only where the binding in scope has that value.
C12_PrepassKeepsMeaning ==
    pc = "substituted" => \A rho \in Valuations : Meaning(stmt, rho) = Meaning(op, rho)

\* a binding whose value is no literal lies inside a binding of the same
\* name whose value is a literal
RECURSIVE ShadowsLiteral(_, _)
ShadowsLiteral(s, lit) ==
    CASE s.node = "LetStmt" ->
            \/ s.name \in lit /\ ~IsClosed(SubstituteExpr(s.value, [n \in LetNames |->
                                    IF n \in lit THEN <<Const(0)>> ELSE <<>>]))
            \/ ShadowsLiteral(s.body,
                              IF IsClosed(SubstituteExpr(s.value, [n \in LetNames |->
                                    IF n \in lit THEN <<Const(0)>> ELSE <<>>]))
                              THEN lit \cup {s.name} ELSE lit)
      [] s.node = "Block" -> ShadowsLiteral(s.first, lit) \/ ShadowsLiteral(s.rest, lit)
      [] OTHER -> FALSE

\* the prepass keeps the values used when no binding that is not a literal
\* shadows a binding that is
C12_PrepassKeepsMeaningWithoutShadowing ==
    (pc = "substituted" /\ ~ShadowsLiteral(op, {})) =>
        \A rho \in Valuations : Meaning(stmt, rho) = Meaning(op, rho)

\* the loops of the input: the outer one and the inner one when there is one
OuterLoop == TheLoop(op)
HasInner == OuterLoop.body.node = "For"
Concurrent(l) == l.for_type \notin {"Serial", "Unrolled"}

\* the loops of the input that are serial or unrolled and not inside a
\* parallel or vectorized loop
Candidates ==
    IF Concurrent(OuterLoop) THEN {}
    ELSE IF HasInner /\ ~Concurrent(OuterLoop.body) THEN {OuterLoop, OuterLoop.body}
    ELSE {OuterLoop}

\* the loops over x of the result
InnerLoopsOf(s) == {l \in Loops(s) : l.name = "x"}

\* C13: a fold is only made at a serial or unrolled loop that is not inside
\* a parallel or vectorized one: a parallel or vectorized outer loop is
\* returned as it was with no fold recorded; a dimension that moves only
\* with a parallel or vectorized loop, or a loop inside one, has no fold and
\* no rewritten access; and no assertion and no acquire is put under a
\* parallel or vectorized loop.
C13_OnlySerialAndUnrolledLoopsFold ==
    pc = "folded" =>
        /\ Concurrent(OuterLoop) => dims_folded = <<>> /\ stmt = op
        /\ \A d \in 1..2 :
              (\A l \in Candidates : Still(l.box[d])) =>
                  /\ FoldsOf(d) = {}
                  /\ \A args \in Accesses(stmt) : args[d] = Idx
        /\ (HasInner /\ Concurrent(OuterLoop.body)) =>
              \A l \in InnerLoopsOf(stmt) : Nodes(l, {"AssertStmt", "Acquire"}) = {}

\* a serial loop over y with a parallel loop over x inside: y moves with the
\* outer loop and is folded, x moves with the parallel loop only and is not
C13_Witness ==
    /\ pc = "folded"
    /\ ~Concurrent(OuterLoop) /\ HasInner /\ Concurrent(OuterLoop.body)
    /\ Still(OuterLoop.box[1]) /\ ~Still(OuterLoop.body.box[1])
    /\ FoldsOf(2) # {} /\ FoldsOf(1) = {}
    /\ \A args \in Accesses(stmt) : args[1] = Idx /\ args[2] # Idx

\* C14: no dimension has two folds in the list of recorded folds, no index
\* of an access of f is wrapped by two mod operations.
C14_AtMostOneFoldPerDimension ==
    pc = "folded" =>
        /\ \A d \in 1..2 : Cardinality(FoldsOf(d)) <= 1
        /\ \A args \in Accesses(stmt) : \A d \in 1..2 :
              args[d].e = "mod" => args[d].a.e # "mod"


\* The case that breaks C14: x is folded at the loop over y, whose tiles are
\* proven not to overlap, and folded again at the loop over x inside it.
C14_TileFoldedTwice ==
    /\ pc = "folded"
    /\ OuterLoop.box[1] = AxisTile
    /\ Cardinality(FoldsOf(1)) = 2
    /\ \E args \in Accesses(stmt) : args[1].e = "mod" /\ args[1].a.e = "mod"


\* to_acquire of the step from iteration i - 1 to iteration i of a loop that
\* starts at lo, for a fold forwards or backwards
StepOf(forwards, i, lo) ==
    IF forwards
    THEN Eval(InWindow.pmax, i, lo, 0) - Eval(InWindow.pmax, i - 1, lo, 0)
    ELSE Eval(InWindow.pmin, i - 1, lo, 0) - Eval(InWindow.pmin, i, lo, 0)

\* (extent - to_acquire) with the loop variable at the first iteration of a
\* loop that starts at lo
FirstDifference(forwards, lo) ==
    Max2(Eval(InWindow.pmax, lo, lo, 0), Eval(InWindow.rmax, lo, lo, 0))
    - Min2(Eval(InWindow.pmin, lo, lo, 0), Eval(InWindow.rmin, lo, lo, 0)) + 1
    - StepOf(forwards, lo, lo)

\* it is the same number wherever the loop starts
FirstDifferenceIsConstant(forwards) ==
    \A lo \in SymDom : FirstDifference(forwards, lo) = FirstDifference(forwards, LoopMin)

\* a window of three rows that moves up by one row per iteration
ForwardWindowOfThree == InWindow = RunWindow(<<1, 1>>, 3, "same", TRUE)

\* the Acquire node in front of the producer's code and the release at the
\* end of the consumer's code
AcquireNode == ProducerCode[1]
ReleaseNode == ConsumerCode[Len(ConsumerCode)]

InitialCountAndAcquire(forwards, acq, rel) ==
    /\ acq.node = "Acquire"
    /\ rel.node = "Release"
    /\ IF FirstDifferenceIsConstant(forwards)
       THEN /\ InitialCount = RunFactor - FirstDifference(forwards, LoopMin)
            /\ \A i \in Iterations : At(acq.count, i) = StepOf(forwards, i, LoopMin)
       ELSE /\ InitialCount = RunFactor
            /\ At(acq.count, LoopMin) = ExtentAt(LoopMin)
            /\ \A i \in Iterations \ {LoopMin} : At(acq.count, i) = StepOf(forwards, i, LoopMin)
    /\ (ForwardWindowOfThree /\ RunFactor = 4) =>
          /\ \A i \in Iterations : At(acq.count, i) = 1 /\ At(rel.count, i) = 1
          /\ InitialCount = 2

\* C15: for an async fold, when (extent - to_acquire) at the first iteration
\* is a constant c, the semaphore starts at factor - c and every iteration
\* acquires to_acquire; when it is not, the semaphore starts at factor, the
\* first iteration acquires the whole extent and every later one to_acquire.
\* A forward window of width 3 that advances by 1, folded by 4, acquires and
\* releases 1 per iteration and starts at 4 - 2 = 2.
C15_InitialCountAndAcquire ==
    (Folded /\ Async /\ pc \in {"folded", "run", "halted", "fault"}) =>
        \E forwards \in {RunForwards}, acq \in {AcquireNode}, rel \in {ReleaseNode} :
            InitialCountAndAcquire(forwards, acq, rel)

\* the window of three rows has run to its end with the factor 4: two slots
\* to start with and one taken in the first iteration
C15_Witness ==
    /\ LoopDone /\ Folded /\ Async
    /\ ForwardWindowOfThree /\ RunFactor = 4
    /\ InitialCount = 2
    /\ acquired = Iterations /\ released = Iterations

\* a window whose first difference is not a constant has run: the first
\* iteration took the whole extent
C15_WitnessFirstIteration ==
    /\ LoopDone /\ Folded /\ Async
    /\ ~FirstDifferenceIsConstant(RunForwards)
    /\ InitialCount = RunFactor
    /\ At(AcquireNode.count, LoopMin) = ExtentAt(LoopMin)
    /\ At(AcquireNode.count, LoopMin) # NewSlots(LoopMin)


\* the measure of a statement: its loops, then its nodes
Size(s) == Len(NodeSeq(s))
LoopCount(s) == Cardinality({k \in DOMAIN NodeSeq(s) : NodeSeq(s)[k].node = "For"})

Smaller(a, b) ==
    \/ LoopCount(a) < LoopCount(b)
    \/ LoopCount(a) = LoopCount(b) /\ Size(a) < Size(b)

\* a is a subtree of b and not b itself
ProperSubtree(a, b) == \E k \in 2..Size(b) : NodeSeq(b)[k] = a

\* the calls made by a visit of the same mutator
RecursiveVisits ==
    {k \in DOMAIN visits : visits[k].by # "realize" /\ visits[k].from # NoStatement
                           /\ (visits[k].by = "planner" => visits[k].from.node # "Realize"
                                                           \/ visits[k].F.name # visits[k].from.name)}

\* C16 as stated: the pass reaches a result after finitely many visits, and
\* every recursive visit is on a subtree of the statement of the visit that
\* made it, smaller than that statement.
C16_EveryVisitOnSmallerSubtree ==
    \A k \in RecursiveVisits : ProperSubtree(visits[k].on, visits[k].from)

\* not even the number of nodes goes down with every visit
C16_EveryVisitOnFewerNodes ==
    \A k \in RecursiveVisits : Size(visits[k].on) < Size(visits[k].from)

\* The order of the calls: the rest of visit(Realize) comes after the
\* orchestrator's visit and the planner after that; a call of the
\* orchestrator is below a call for a tree it is a proper part of, a call of
\* the planner is below a call for a statement with more loops, or with the
\* same loops and more nodes.  No chain goes down for ever in this order.
Rank(by) == CASE by = "planner" -> 0 [] by = "realize" -> 1 [] by = "orchestrator" -> 2

Below(v, w) ==
    \/ Rank(v.by) < Rank(w.by)
    \/ /\ v.by = w.by
       /\ IF v.by = "orchestrator" THEN ProperSubtree(v.on, w.on) ELSE Smaller(v.on, w.on)

\* the calls a step has put in front of the pending ones
Made == Len(visits') - Len(visits) + 1

\* C16, amended: the pass reaches a result after finitely many visits.  Every
\* visit takes one pending call away and puts finitely many calls in its
\* place, each below it: a recursive visit of the orchestrator is on a
\* smaller subtree, a recursive visit of the planner is on a statement with
\* fewer loops than the statement of the visit that made it, or with the same
\* loops and fewer nodes.  With no call pending the pass returns its result.
C16_PassTerminates ==
    [][/\ (pc = "visiting" /\ visits # <<>>) =>
            /\ pc' = "visiting" =>
                  /\ Made \in 0..2
                  /\ \A k \in 1..Made : Below(visits'[k], Head(visits))
                  /\ SubSeq(visits', Made + 1, Len(visits')) = Tail(visits)
            /\ pc' # "visiting" => pc' = "user_assert" /\ visits' = <<>>
       /\ (pc = "visiting" /\ visits = <<>>) =>
            pc' \in {"folded", "user_assert", "internal_assert"}]_vars

\* the planner is about to visit the body it has built at a loop it folded:
\* no subtree of the loop, and more nodes than the loop
C16_Witness ==
    /\ pc = "visiting"
    /\ visits # <<>>
    /\ Head(visits).by = "planner"
    /\ Head(visits).from.node = "For"
    /\ dims_folded # <<>>
    /\ Size(Head(visits).on) > Size(Head(visits).from)

\* the visits made one at a time leave the folds the pass returns
VisitsRecordThePassesFolds ==
    (pc = "visiting" /\ visits = <<>>) => dims_folded = StorageFolding(op, env).folds


\* the planner's function for the loop that is run
RunFunction ==
    [name |-> "f", storage_dims |-> env["f"].storage_dims,
     async |-> env["f"].async, explicit_only |-> FALSE]

\* the bounds of the union of the windows in iteration i
MinAt(i) == Min2(At(InWindow.pmin, i), At(InWindow.rmin, i))
MaxAt(i) == Max2(At(InWindow.pmax, i), At(InWindow.rmax, i))

\* neither direction is proven for the window of the loop that is run, the
\* window moves with the loop variable and a factor is declared
DirectionDeclaredNotProven ==
    /\ ~ProvenForwards(InWindow, RunFunction)
    /\ ~ProvenBackwards(InWindow, RunFunction)
    /\ \E i \in SymDom : MinAt(i) # MinAt(LoopMin) \/ MaxAt(i) # MaxAt(LoopMin)
    /\ defined(Declared(1))

DeclaredForward == env["f"].storage_dims[1].fold_forward

\* the bounds of iteration i + 1 are in the declared direction from the ones
\* of iteration i
DeclaredDirectionAt(i) ==
    IF DeclaredForward
    THEN MinAt(i + 1) >= MinAt(i)
         /\ (Async => At(InWindow.pmax, i + 1) >= At(InWindow.pmax, i))
    ELSE MaxAt(i + 1) <= MaxAt(i)
         /\ (Async => At(InWindow.pmin, i + 1) <= At(InWindow.pmin, i))

\* the assertions of the direction in the body of the loop
DirectionAssertions ==
    {k \in DOMAIN ProducerCode : /\ ProducerCode[k].node = "AssertStmt"
                                 /\ ProducerCode[k].error = "halide_error_bad_fold"}

DeclaredDirectionIsAsserted(code, asserted) ==
    /\ Folded
    /\ RunFactor = At(Declared(1), LoopMin)
    /\ Cardinality(asserted) = 1
    /\ \A k \in asserted : \A i \in Iterations :
          At(code[k].condition, i) = 1 <=> DeclaredDirectionAt(i)
    /\ Async => \A i \in Iterations \ {LoopMin} :
                    At(code[1].count, i) = StepOf(DeclaredForward, i, LoopMin)
    /\ (pc = "halted" /\ prod.k \in asserted) => ~DeclaredDirectionAt(prod.i)
    /\ LoopDone => \A i \in Iterations : DeclaredDirectionAt(i)

\* C17: when neither direction is proven for an axis that mentions the loop
\* variable and a factor is declared, the fold is made in the declared
\* direction and the loop body asserts that direction in every iteration:
\* forwards that the min, and for an async function the provided max, of the
\* next iteration is not below the one of this iteration, backwards the
\* mirror.  A loop that has run to its end without a failed assertion has
\* bounds that are monotonic in the declared direction over its range.
C17_DeclaredDirectionIsAsserted ==
    (pc \in {"folded", "run", "halted", "fault"} /\ DirectionDeclaredNotProven) =>
        \E code \in {ProducerCode} : \E asserted \in {DirectionAssertions} :
            DeclaredDirectionIsAsserted(code, asserted)

\* a loop folded backwards as declared, for an async function, has run to its
\* end: every iteration has checked the direction
C17_Witness ==
    /\ LoopDone /\ DirectionDeclaredNotProven /\ Async /\ ~DeclaredForward
    /\ wrote = Iterations
    /\ DirectionAssertions # {}

\* the window turned against the declared direction and the assertion has
\* stopped the loop
C17_WitnessHalted ==
    /\ pc = "halted" /\ DirectionDeclaredNotProven
    /\ prod.k \in DirectionAssertions
    /\ prod.i > LoopMin


\* the assertions of the extent in the body of the loop
ExtentAssertions ==
    {k \in DOMAIN ProducerCode : /\ ProducerCode[k].node = "AssertStmt"
                                 /\ ProducerCode[k].error = "halide_error_fold_factor_too_small"}

\* the stores to f in the body of the loop
Stores == {k \in DOMAIN ProducerCode : ProducerCode[k].node = "Provide"}

ExtentWithinFactor(code, checks) ==
    /\ \A i \in wrote \cup readit : ExtentAt(i) <= RunFactor
    /\ IF defined(Declared(1))
       THEN /\ RunFactor = At(Declared(1), LoopMin)
            /\ checks # {}
            /\ \A k \in checks :
                  /\ \A i \in Iterations : At(code[k].condition, i) = 1 <=> ExtentAt(i) <= RunFactor
                  /\ \A j \in Stores : k < j
            /\ (pc = "halted" /\ prod.k \in checks) =>
                  ExtentAt(prod.i) > RunFactor /\ prod.i \notin wrote \cup readit
       ELSE /\ checks = {}
            /\ \A i \in Iterations : ExtentAt(i) <= RunFactor

\* C18: for a recorded fold the extent is at most the factor in every
\* iteration that makes its folded accesses.  An automatic factor is at least
\* the extent of every iteration of the loop; a declared factor is used as
\* declared, neither rounded to a power of two nor capped at 1024, and the
\* loop body checks extent <= factor in each iteration before the accesses of
\* that iteration.
C18_ExtentWithinFactor ==
    (Folded /\ pc \in {"folded", "run", "halted", "fault"}) =>
        \E code \in {ProducerCode} : \E checks \in {ExtentAssertions} :
            ExtentWithinFactor(code, checks)

\* a loop folded by a declared factor above 1024 that is no power of two has
\* run to its end
C18_Witness ==
    /\ LoopDone /\ Folded
    /\ RunFactor = max_fold + 1
    /\ wrote = Iterations /\ readit = Iterations

\* the declared factor is below the extent and the check has stopped the loop
\* before its first access
C18_WitnessHalted ==
    /\ pc = "halted" /\ Folded /\ defined(Declared(1))
    /\ prod.k \in ExtentAssertions
    /\ ExtentAt(prod.i) > RunFactor
    /\ wrote = {}


\* the planner's function for the realization of the input
PassFunction == Folder(op, op.body, env["f"])

\* the axis of dimension 2 at the outer loop has a direction, no declared
\* factor, and an extent with no constant bound, or one above max_fold
DirectionButNoBound(ax, F, bound) ==
    /\ OuterLoop.for_type \in {"Serial", "Unrolled"}
    /\ ProvenForwards(ax, F) \/ ProvenBackwards(ax, F)
    /\ ~defined(Declared(2))
    /\ ~defined(bound) \/ bound.v > max_fold

UnboundedAxis ==
    /\ op.body.node = "For"
    /\ \E ax \in {OuterLoop.box[2]} :
          DirectionButNoBound(ax, PassFunction,
                              find_constant_bound(Extent(ax), ax.bound_known))

\* the input with dimension 2 standing still at the outer loop
WithStillAxis == [op EXCEPT !.body.box[2] = AxisConst]

\* a statement without the bounds noted at its loops
RECURSIVE Bare(_)
Bare(s) ==
    IF s.node = "Block" THEN Block(Bare(s.first), Bare(s.rest))
    ELSE IF s.node = "For" THEN [s EXCEPT !.box = <<>>, !.body = Bare(s.body)]
    ELSE IF HasBody(s) THEN [s EXCEPT !.body = Bare(s.body)]
    ELSE s

\* the result is the one for the input r was made from
SkippedLikeStill(r) ==
    /\ r.error = "none"
    /\ dims_folded = r.folds
    /\ Bare(stmt) = Bare(r.stmt)

\* C19: an axis with a direction and no declared factor whose extent has no
\* constant bound over the loop, or one above 1024, is passed over without an
\* error: it gets no fold and no rewritten access, and the result, with its
\* assertions and the folds of the other axis and of the loops inside, is the
\* one for the same input with that axis standing still, which gets no
\* assertion.
C19_UnboundedAxisIsSkipped ==
    (pc # "input" /\ UnboundedAxis) =>
        /\ pc = "folded"
        /\ FoldsOf(2) = {}
        /\ \A args \in Accesses(stmt) : args[2] = Idx
        /\ \E r \in {StorageFolding(WithStillAxis, env)} : SkippedLikeStill(r)

\* the rows have no bound, and the columns are folded at the same loop
C19_Witness ==
    /\ pc = "folded" /\ UnboundedAxis
    /\ OuterLoop.box[2] = AxisSlideUnbounded
    /\ ~HasInner
    /\ FoldsOf(2) = {} /\ FoldsOf(1) # {}

\* the rows are wider than 1024, and the columns are folded at the same loop
C19_WitnessWide ==
    /\ pc = "folded" /\ UnboundedAxis
    /\ OuterLoop.box[2] = AxisSlideWide
    /\ FoldsOf(2) = {} /\ FoldsOf(1) # {}

\* the rows have no bound, and the columns are folded at the loop inside
C19_WitnessInner ==
    /\ pc = "folded" /\ UnboundedAxis
    /\ HasInner /\ Still(OuterLoop.box[1])
    /\ FoldsOf(2) = {} /\ FoldsOf(1) # {}


\* the storage dimension i can be folded at the outer loop: it has a
\* direction there and a factor
FoldableAt(i) ==
    \E plan \in {AxisPlan(OuterLoop.box[i], PassFunction.storage_dims[i], PassFunction)} :
        (plan.forwards \/ plan.backwards) /\ defined(plan.factor)

\* values of dimension i may pass from one iteration of the outer loop to
\* the next: max < min at var + 1 is not proven
Overlaps(i) == ~NoOverlap(OuterLoop.box[i])

\* the dimensions folded at the outer loop, in the order of their folds
OuterFolds ==
    IF FoldableAt(2)
    THEN (IF ~Overlaps(2) /\ FoldableAt(1) THEN <<2, 1>> ELSE <<2>>)
    ELSE IF FoldableAt(1) THEN <<1>> ELSE <<>>

LastOuterFold == OuterFolds[Len(OuterFolds)]

\* a pass without an error over a nest whose outer loop folds a dimension
FoldAtOuterLoop ==
    /\ pc = "folded"
    /\ op.body.node = "For"
    /\ OuterLoop.for_type \in {"Serial", "Unrolled"}
    /\ OuterFolds # <<>>

\* the first folds recorded are those of the outer loop
OuterFoldsRecorded ==
    /\ Len(dims_folded) >= Len(OuterFolds)
    /\ \A k \in 1..Len(OuterFolds) : dims_folded[k].dim = OuterFolds[k] - 1

\* nothing but the outer loop is folded
OnlyOuterFolds ==
    /\ Len(dims_folded) = Len(OuterFolds)
    /\ \A args \in Accesses(stmt) : \A d \in 1..2 :
          /\ (\A k \in 1..Len(OuterFolds) : OuterFolds[k] # d) => args[d] = Idx
          /\ args[d].e = "mod" => args[d].a.e # "mod"

\* the input with the body of the outer loop in the place of the loop
InnerAlone == [op EXCEPT !.body = OuterLoop.body]

FoldsOfIn(folds, d) == {[factor |-> folds[k].factor] : k \in {j \in DOMAIN folds : folds[j].dim = d - 1}}

\* the dimensions the outer loop has not folded are folded inside the loop
\* as the pass folds them for the body of the outer loop on its own
BodySearched(r) ==
    /\ r.error = "none"
    /\ \A d \in 1..2 :
          (\A k \in 1..Len(OuterFolds) : OuterFolds[k] # d) =>
              FoldsOfIn(dims_folded, d) = FoldsOfIn(r.folds, d)

\* a dimension the outer loop has not folded is folded in the body on its own
FoldInside(r) ==
    \E d \in 1..2 :
        /\ \A k \in 1..Len(OuterFolds) : OuterFolds[k] # d
        /\ FoldsOfIn(r.folds, d) # {}

\* C20 as stated: after the last fold at a loop, the planner recurses into
\* the body of the loop when max < min at var + 1 is proven for the folded
\* axis, and otherwise folds no further axis and no inner loop.
C20_RecursesWhenNoOverlapIsProven ==
    FoldAtOuterLoop =>
        /\ OuterFoldsRecorded
        /\ IF Overlaps(LastOuterFold) THEN OnlyOuterFolds
           ELSE \E r \in {StorageFolding(InnerAlone, env)} : BodySearched(r)

\* C20: after a fold at a loop, when max < min at var + 1 is not proven for
\* the folded axis the search stops at this loop: no further axis and no
\* inner loop is folded.  When it is proven, the planner goes on with the
\* remaining axes at the same loop, and after the last of them it recurses
\* into the body of the loop only if the provided box contains the required
\* box; it folds nothing inside the loop otherwise.
C20_RecursesWhenNoOverlapAndContained ==
    FoldAtOuterLoop =>
        /\ OuterFoldsRecorded
        /\ IF Overlaps(LastOuterFold) \/ ~box_contains(OuterLoop.box) THEN OnlyOuterFolds
           ELSE \E r \in {StorageFolding(InnerAlone, env)} : BodySearched(r)

\* the fold at the outer loop may pass values on, and the loop inside, which
\* is folded on its own, is left alone
C20_WitnessStops ==
    /\ FoldAtOuterLoop /\ HasInner
    /\ Overlaps(LastOuterFold)
    /\ FoldInside(StorageFolding(InnerAlone, env))
    /\ Len(dims_folded) = 1

\* the rows are folded at the outer loop without overlap, and the loop
\* inside is searched and folded
C20_WitnessRecurses ==
    /\ FoldAtOuterLoop /\ HasInner
    /\ ~Overlaps(LastOuterFold) /\ box_contains(OuterLoop.box)
    /\ FoldInside(StorageFolding(InnerAlone, env))
    /\ Len(dims_folded) > Len(OuterFolds)

\* the rows are folded at the outer loop without overlap, the columns slide
\* with no proven direction, so that the provided box does not contain the
\* required one, and the loop inside is not searched
C20_WitnessNotContained ==
    /\ FoldAtOuterLoop /\ HasInner
    /\ ~Overlaps(LastOuterFold) /\ ~box_contains(OuterLoop.box)
    /\ FoldInside(StorageFolding(InnerAlone, env))
    /\ Len(dims_folded) = Len(OuterFolds)


\* a pass without an error over a nest of one serial or unrolled loop
OneLoopNest ==
    /\ pc = "folded"
    /\ op.body.node = "For"
    /\ ~HasInner
    /\ OuterLoop.for_type \in {"Serial", "Unrolled"}

\* C21 as stated: a loop contributes at most one fold to the allocation.
C21_AtMostOneFoldPerLoop == OneLoopNest => Len(dims_folded) <= 1

\* C21: at a single loop the planner tries the storage axes from the
\* outermost to the innermost; it stops at the first axis it folds unless
\* max < min at var + 1 is proven for that axis, and then goes on with the
\* remaining axes, so that one loop contributes at most one fold for each
\* axis, recorded from the outermost axis in, and a second fold only after a
\* first one with no overlap between iterations.
C21_FoldsOfOneLoop ==
    OneLoopNest =>
        /\ Len(dims_folded) <= 2
        /\ \A j, k \in DOMAIN dims_folded : j < k => dims_folded[j].dim > dims_folded[k].dim
        /\ Len(dims_folded) = Len(OuterFolds)
        /\ \A k \in DOMAIN dims_folded : dims_folded[k].dim = OuterFolds[k] - 1
        /\ Len(dims_folded) = 2 => ~Overlaps(2)
        /\ (FoldableAt(2) /\ Overlaps(2)) => Len(dims_folded) = 1

\* the rows are folded with no overlap and the columns at the same loop
C21_WitnessTwoFolds ==
    /\ OneLoopNest
    /\ Len(dims_folded) = 2
    /\ dims_folded[1].dim = 1 /\ dims_folded[2].dim = 0

\* the rows are folded and may pass values on: the columns, which have a
\* direction and a factor, are not folded
C21_WitnessStopsAtFirst ==
    /\ OneLoopNest
    /\ FoldableAt(2) /\ Overlaps(2) /\ FoldableAt(1)
    /\ Len(dims_folded) = 1 /\ dims_folded[1].dim = 1


\* a pass without an error over a nest of two loops whose outer loop, serial
\* or unrolled, folds no axis
NoFoldAtOuterLoop ==
    /\ pc = "folded"
    /\ op.body.node = "For"
    /\ HasInner
    /\ OuterLoop.for_type \in {"Serial", "Unrolled"}
    /\ OuterFolds = <<>>

\* the result is the outer loop around the result r of the pass for the
\* body of the loop on its own, with the folds of r
BodyFoldedAsAlone(r) ==
    /\ r.error = "none"
    /\ dims_folded = r.folds
    /\ TheLoop(stmt).name = OuterLoop.name
    /\ TheLoop(stmt).body = TheRealize(r.stmt).body

\* C22: when no axis is folded at a serial or unrolled loop and the provided
\* box of its body contains the required box, the planner recurses into the
\* body of the loop: the loops inside are folded as they are on their own.
C22_DescendsWithoutFold ==
    (NoFoldAtOuterLoop /\ box_contains(OuterLoop.box)) =>
        \E r \in {StorageFolding(InnerAlone, env)} : BodyFoldedAsAlone(r)

\* the outer loop folds nothing, and the columns are folded at the loop inside
C22_Witness ==
    /\ NoFoldAtOuterLoop /\ box_contains(OuterLoop.box)
    /\ OuterLoop.body.for_type = "Serial"
    /\ dims_folded # <<>>
    /\ \E args \in Accesses(stmt) : args[1].e = "mod"


\* the positions, among the nodes of the result, of the bindings of a name
BindingsOf(name) ==
    {k \in DOMAIN NodeSeq(stmt) : NodeSeq(stmt)[k].node = "LetStmt" /\ NodeSeq(stmt)[k].name = name}

\* the position of the realization of f among the nodes of the result
RealizeAt ==
    CHOOSE k \in DOMAIN NodeSeq(stmt) :
        NodeSeq(stmt)[k].node = "Realize" /\ NodeSeq(stmt)[k].name = "f"

\* the acquires and releases of a semaphore in a statement
UsesOf(var, s) == {n \in Nodes(s, {"Acquire", "Release"}) : n.semaphore = var}

\* the binding at position k makes the semaphore of the fold from its initial
\* count, outside the realization and every loop, around every acquire and
\* release of the semaphore
BindsSemaphore(k, sem, ns) ==
    /\ ns[k].value = [call |-> "halide_make_semaphore", init |-> sem.init]
    /\ k < RealizeAt
    /\ \A j \in 1..k : ns[j].node = "LetStmt"
    /\ UsesOf(sem.var, ns[k].body) = UsesOf(sem.var, stmt)
    /\ UsesOf(sem.var, ns[RealizeAt].body) = UsesOf(sem.var, stmt)
    /\ \E n \in UsesOf(sem.var, stmt) : n.node = "Acquire"
    /\ \E n \in UsesOf(sem.var, stmt) : n.node = "Release"

\* C23: every fold that carries a semaphore has exactly one binding that
\* makes the semaphore from its initial count; the binding is around the
\* realization, so outside every loop, and every acquire and release of the
\* semaphore is inside it.  Every fold of an async stage carries a semaphore
\* of its own; a fold of a stage that is not async has no semaphore, and the
\* result no binding.
C23_OneBindingPerSemaphore ==
    pc = "folded" =>
        /\ \A k \in DOMAIN dims_folded :
              /\ defined(dims_folded[k].semaphore.var) <=> env["f"].async
              /\ defined(dims_folded[k].semaphore.var) =>
                    /\ Cardinality(BindingsOf(dims_folded[k].semaphore.name)) = 1
                    /\ \A b \in BindingsOf(dims_folded[k].semaphore.name) :
                          BindsSemaphore(b, dims_folded[k].semaphore, NodeSeq(stmt))
                    /\ \A j \in DOMAIN dims_folded :
                          j # k => dims_folded[j].semaphore.name # dims_folded[k].semaphore.name
        /\ Cardinality({k \in DOMAIN NodeSeq(stmt) : NodeSeq(stmt)[k].node = "LetStmt"})
              = Cardinality({k \in DOMAIN dims_folded : defined(dims_folded[k].semaphore.var)})
        /\ ~env["f"].async => Nodes(stmt, {"Acquire", "Release", "LetStmt"}) = {}

\* two folds of an async stage, each with its binding
C23_Witness ==
    /\ pc = "folded" /\ env["f"].async
    /\ Len(dims_folded) = 2
    /\ \A k \in 1..2 : Cardinality(BindingsOf(dims_folded[k].semaphore.name)) = 1
    /\ Cardinality(Nodes(stmt, {"Acquire"})) = 2

\* a fold of a stage that is not async, without a binding
C23_WitnessNotAsync ==
    /\ pc = "folded" /\ ~env["f"].async
    /\ dims_folded # <<>>
    /\ Nodes(stmt, {"LetStmt"}) = {}


\* the difference of a bound of the window between iteration i and
\* iteration j of the loop of the run
Moved(bound, i, j) == At(bound, i) - At(bound, j)

\* the amounts of the emitted acquire and release in the iterations of the run
PerStepAmounts(forwards, acq, rel) ==
    /\ acq.node = "Acquire"
    /\ rel.node = "Release"
    /\ rel.semaphore = acq.semaphore
    /\ \A i \in Iterations \ {LoopMin} :
          At(acq.count, i) = IF forwards THEN Moved(InWindow.pmax, i, i - 1)
                             ELSE Moved(InWindow.pmin, i - 1, i)
    /\ \A i \in Iterations :
          At(rel.count, i) = IF forwards THEN Moved(InWindow.rmin, i + 1, i)
                             ELSE Moved(InWindow.rmax, i, i + 1)

\* C24: the per-step amounts of an async fold are the differences of the
\* bounds between consecutive iterations.  Forwards, iteration i acquires
\* max(provided) at i minus max(provided) at i - 1 and releases min(required)
\* at i + 1 minus min(required) at i; backwards, it acquires min(provided) at
\* i - 1 minus min(provided) at i and releases max(required) at i minus
\* max(required) at i + 1.  (The acquire of the first iteration is the
\* subject of C15.)
C24_PerStepAmounts ==
    (Folded /\ Async /\ pc \in {"folded", "run", "halted", "fault"}) =>
        \E forwards \in {RunForwards}, acq \in {AcquireNode}, rel \in {ReleaseNode} :
            PerStepAmounts(forwards, acq, rel)

\* a forward fold whose provided and required bounds move by different
\* amounts in some iteration
C24_Witness ==
    /\ Folded /\ Async /\ pc = "folded"
    /\ RunForwards
    /\ \E i \in Iterations \ {LoopMin} :
          /\ Moved(InWindow.pmax, i, i - 1) # Moved(InWindow.rmax, i, i - 1)
          /\ At(AcquireNode.count, i) > 0
    /\ \E i \in Iterations :
          /\ Moved(InWindow.rmin, i + 1, i) # Moved(InWindow.pmin, i + 1, i)
          /\ At(ReleaseNode.count, i) > 0

\* a backward fold that acquires and releases
C24_WitnessBackwards ==
    /\ Folded /\ Async /\ pc = "folded"
    /\ ~RunForwards
    /\ \E i \in Iterations \ {LoopMin} : At(AcquireNode.count, i) > 0
    /\ \E i \in Iterations : At(ReleaseNode.count, i) > 0


\* the count the producer's Acquire takes in iteration i
AcquiredAt(i) == At(AcquireNode.count, i)

\* C25: in every async fold, with a proven direction or with a declared one
\* that the loop body asserts, the producer acquires a non-negative number of
\* slots in every iteration it runs, the first one included: no acquire
\* raises the count of the semaphore.
C25_AcquireNeverRaisesTheCount ==
    [][(Folded /\ Async /\ acquired' # acquired) => sema' <= sema]_vars

\* the acquires of a fold with a proven direction take non-negative counts
C25_ProvenDirectionNeverNegative ==
    (Folded /\ Async /\ pc \in {"folded", "run", "halted", "fault"}
        /\ ~DirectionDeclaredNotProven) =>
            \A i \in Iterations : AcquiredAt(i) >= 0

\* with a declared direction only the acquire of the first iteration, which
\* runs before the first evaluation of the direction assertion, takes a
\* negative count; the assertion then halts the loop in that iteration
C25_OnlyTheFirstAcquireIsNegative ==
    (Folded /\ Async /\ pc \in {"run", "halted", "fault"} /\ DirectionDeclaredNotProven) =>
        /\ \A i \in acquired \ {LoopMin} : AcquiredAt(i) >= 0
        /\ (LoopMin \in acquired /\ AcquiredAt(LoopMin) < 0) =>
              /\ prod.i = LoopMin
              /\ prod.k <= CHOOSE k \in DirectionAssertions : TRUE

\* the case that breaks C25: the fold is declared forwards for a window that
\* moves backwards; the first iteration has acquired a negative count, so the
\* semaphore holds more than its initial count before any release, and the
\* direction assertion has then failed in the same iteration
C25_NegativeAcquireThenHalt ==
    /\ pc = "halted" /\ Folded /\ Async
    /\ DirectionDeclaredNotProven /\ DeclaredForward
    /\ acquired = {LoopMin} /\ released = {}
    /\ AcquiredAt(LoopMin) < 0
    /\ sema > InitialCount
    /\ prod.k \in DirectionAssertions


\* the bound moves with the loop variable and never down, or never up, from
\* one iteration to the next, and the classifier sees it
Increases(x, ax) ==
    /\ ax.mono_known
    /\ \E i \in SymDom : At(x, i) # At(x, LoopMin)
    /\ \A i \in SymDom : At(x, i) <= At(x, i + 1)

Decreases(x, ax) ==
    /\ ax.mono_known
    /\ \E i \in SymDom : At(x, i) # At(x, LoopMin)
    /\ \A i \in SymDom : At(x, i) >= At(x, i + 1)

\* the rows of an async stage are folded at the one loop of the nest with
\* no declared factor
AutomaticAsyncFold ==
    /\ OneLoopNest
    /\ env["f"].async
    /\ ~defined(Declared(2))
    /\ FoldsOf(2) # {}

\* C26 as stated: an async stage gets an automatic fold only when the bound
\* of its required region and the bound of its provided region are both
\* monotonic in the direction of the fold.
C26_RequiredAndProvidedMonotonic ==
    AutomaticAsyncFold =>
        \E ax \in {OuterLoop.box[2]} :
            \/ Increases(ax.rmin, ax) /\ Increases(ax.pmax, ax)
            \/ Decreases(ax.rmax, ax) /\ Decreases(ax.pmin, ax)

\* C26: an async stage gets an automatic fold only when the bound of the
\* union of its required and provided regions (the min forwards, the max
\* backwards) and the bound of its provided region (the max forwards, the
\* min backwards) are both monotonic in the direction of the fold: a
\* required region that is not monotonic inside a monotonic provided region
\* does not prevent the fold, a provided bound that is not monotonic does.
C26_UnionAndProvidedMonotonic ==
    AutomaticAsyncFold =>
        \E ax \in {OuterLoop.box[2]} :
            \/ Increases(Bin("min", ax.pmin, ax.rmin), ax) /\ Increases(ax.pmax, ax)
            \/ Decreases(Bin("max", ax.pmax, ax.rmax), ax) /\ Decreases(ax.pmin, ax)

\* the required rows jitter inside provided rows that move up steadily: the
\* async stage is folded
C26_WitnessRequiredJitters ==
    /\ AutomaticAsyncFold
    /\ OuterLoop.box[2] = AxisRequiredJitters
    /\ ~Increases(AxisRequiredJitters.rmin, AxisRequiredJitters)
    /\ \E k \in FoldsOf(2) : dims_folded[k].factor = Const(8)

\* the provided rows jitter inside required rows that move up steadily: the
\* async stage is not folded
C26_WitnessProvidedJitters ==
    /\ OneLoopNest /\ env["f"].async /\ ~defined(Declared(2))
    /\ OuterLoop.box[2] = AxisProvidedJitters
    /\ Stages("one", 2) = OuterLoop.body
    /\ Increases(Bin("min", AxisProvidedJitters.pmin, AxisProvidedJitters.rmin), AxisProvidedJitters)
    /\ dims_folded = <<>>

\* the same rows of a stage that is not async are folded
C26_WitnessNotAsync ==
    /\ OneLoopNest /\ ~env["f"].async /\ ~defined(Declared(2))
    /\ OuterLoop.box[2] = AxisProvidedJitters
    /\ FoldsOf(2) # {}


\* the min of the required region never moves down over the loop (forwards),
\* or its max never up (backwards)
RequiredMovesOneWay ==
    \/ \A i \in SymDom : At(InWindow.rmin, i) <= At(InWindow.rmin, i + 1)
    \/ \A i \in SymDom : At(InWindow.rmax, i) >= At(InWindow.rmax, i + 1)

\* what holds of C2: in the async folds of windows whose required region
\* moves one way, no produced and unread iteration loses a value it reads
C2_HoldsWhenRequiredMovesOneWay ==
    (Folded /\ Async /\ RequiredMovesOneWay) =>
        /\ pc # "fault"
        /\ Running => \A j \in Pending : ReadsSee(j)

\* the case that breaks C2 and C26: the rows required jitter inside provided
\* rows that move up steadily, the async stage is folded forwards, an
\* iteration releases a negative count, and the producer, running ahead, has
\* overwritten a row that an iteration of the consumer still reads
C26_JitterClobbered ==
    /\ Running /\ Folded /\ Async
    /\ InWindow = JitterWindow
    /\ \E i \in Iterations : At(ReleaseNode.count, i) < 0
    /\ \E j \in Pending : ~ReadsSee(j)


\* the acquires of the protocol that takes the whole extent in the first
\* iteration and to_acquire in the later ones
LogicalAcquire(forwards) ==
    [i \in Iterations |-> IF i = LoopMin THEN ExtentAt(i) ELSE StepOf(forwards, i, LoopMin)]

\* the releases of either protocol
LogicalRelease(forwards) ==
    [i \in Iterations |-> IF forwards THEN Moved(InWindow.rmin, i + 1, i)
                          ELSE Moved(InWindow.rmax, i, i + 1)]

\* the count of the semaphore of that protocol, started with the factor,
\* after the acquires and releases made so far
LogicalCount(forwards) ==
    RunFactor - Sum(LogicalAcquire(forwards), acquired) + Sum(LogicalRelease(forwards), released)

\* the run with the reduced initial count is in step with the logical one
InStepWithLogical(c, forwards, acq) ==
    /\ InitialCount = RunFactor - c
    /\ \A i \in Iterations : At(acq.count, i) = StepOf(forwards, i, LoopMin)
    /\ (InitialCount >= At(acq.count, LoopMin)) <=> (RunFactor >= ExtentAt(LoopMin))
    /\ LoopMin \in acquired => sema = LogicalCount(forwards)
    /\ (pc = "run" /\ LoopMin \notin acquired) => sema = RunFactor - c

\* the first difference, or none when it is not the same number wherever the
\* loop starts
ConstantFirstDifference(forwards) ==
    IF FirstDifferenceIsConstant(forwards) THEN {FirstDifference(forwards, LoopMin)} ELSE {}

\* C27: whenever (extent - to_acquire) at the first iteration is a constant
\* c, the run with the initial count factor - c that acquires to_acquire in
\* every iteration has, after the acquire and after the release of every
\* iteration, the count of the protocol that starts with the factor and
\* acquires the whole extent in the first iteration and to_acquire in the
\* later ones; the first acquire can be taken in the one exactly when it can
\* in the other.
C27_FirstIterationAccountingsAgree ==
    (Folded /\ Async /\ pc \in {"run", "halted", "fault"}) =>
        \E forwards \in {RunForwards}, acq \in {AcquireNode} :
            \A c \in ConstantFirstDifference(forwards) : InStepWithLogical(c, forwards, acq)

\* a loop has run to its end with an initial count below the factor
C27_Witness ==
    /\ LoopDone /\ Folded /\ Async
    /\ FirstDifferenceIsConstant(RunForwards)
    /\ FirstDifference(RunForwards, LoopMin) > 0
    /\ InitialCount < RunFactor
    /\ acquired = Iterations /\ released = Iterations
    /\ sema = LogicalCount(RunForwards)


\* forwards no bound of the window ever moves down from one iteration to
\* the next, backwards none ever moves up
MovesOneWay(forwards) ==
    \A i \in SymDom : \A b \in {InWindow.pmin, InWindow.pmax, InWindow.rmin, InWindow.rmax} :
        IF forwards THEN At(b, i) <= At(b, i + 1) ELSE At(b, i) >= At(b, i + 1)

\* the producer can take its next step: it is not at an acquire that the
\* count of the semaphore does not cover
ProducerCanStep ==
    /\ ProducerReady
    /\ ProducerCode[prod.k].node = "Acquire" => sema >= At(ProducerCode[prod.k].count, prod.i)

\* the run of an async fold of a window that moves one way in the direction
\* of the fold and stays within the factor
MonotonicAsyncRun ==
    /\ pc = "run" /\ Folded /\ Async
    /\ MovesOneWay(RunForwards)
    /\ \A i \in Iterations : ExtentAt(i) <= RunFactor

\* C28: an async fold of a window that moves monotonically in the direction
\* of the fold with extent <= factor in every iteration does not deadlock:
\* while iterations are left, the producer or the consumer can take a step,
\* so that with a consumer that keeps running every acquire of the producer
\* is satisfied in the end and the loop completes.
C28_NoDeadlock ==
    (MonotonicAsyncRun /\ ~LoopDone) => (ProducerCanStep \/ ConsumerReady)

\* the case that breaks C28: the producer waits at its acquire for more
\* slots than the semaphore holds, and the consumer has read and released
\* everything that has been produced
C28_ProducerWaitsForEver ==
    /\ MonotonicAsyncRun
    /\ prod.i <= loop_max
    /\ ProducerCode[prod.k].node = "Acquire"
    /\ sema < At(ProducerCode[prod.k].count, prod.i)
    /\ cons.i = prod.i
    /\ released = LoopMin..(prod.i - 1)


\* ---- C29 ----
ExplicitMode == ExplicitOnly(op.body, "f")

\* the positions, among the nodes of a statement, of the assertions with a
\* given condition
AssertedAt(s, condition) ==
    {k \in DOMAIN NodeSeq(s) :
        NodeSeq(s)[k].node = "AssertStmt" /\ NodeSeq(s)[k].condition = condition}

\* the positions of the accesses of f whose index of dimension d is rewritten
RewrittenAt(s, d) ==
    {k \in DOMAIN NodeSeq(s) :
        /\ NodeSeq(s)[k].node \in {"Call", "Provide"}
        /\ NodeSeq(s)[k].name = "f"
        /\ NodeSeq(s)[k].args[d + 1] # Idx}

\* a loop carries the two assertions of a fold in front of every rewritten
\* access of its body
AssertedInFront(l, fold) ==
    LET ax == l.box[fold.dim + 1]
        extent == AssertedAt(l.body, Bin("le", Extent(ax), fold.factor))
        direction == AssertedAt(l.body, DirectionCondition(ax, env["f"].storage_dims[fold.dim + 1],
                                                           [async |-> Async]))
    IN  /\ extent # {}
        /\ direction # {}
        /\ RewrittenAt(l.body, fold.dim) # {}
        /\ \A k \in RewrittenAt(l.body, fold.dim) :
              (\E e \in extent : e < k) /\ (\E c \in direction : c < k)

\* C29: when the realization holds a number of produce nodes of f other than
\* one, every recorded fold has, in the body of a loop of the result, the
\* assertion extent <= factor and the assertion of the declared direction,
\* both in front of every access of that body rewritten in the folded
\* dimension, and no rewritten access lies outside such a loop.
C29_ExplicitFoldsAreAsserted ==
    (pc = "folded" /\ ExplicitMode) =>
        \A k \in DOMAIN dims_folded :
            /\ dims_folded[k].factor = Declared(dims_folded[k].dim + 1)
            /\ \E l \in Loops(stmt) :
                  /\ AssertedInFront(l, dims_folded[k])
                  /\ Cardinality(RewrittenAt(l.body, dims_folded[k].dim))
                        = Cardinality(RewrittenAt(stmt, dims_folded[k].dim))

C29_Witness ==
    /\ pc = "folded" /\ ExplicitMode /\ Folded
    /\ count_producers(op.body, "f") = 2

C29_WitnessAsync ==
    /\ pc = "folded" /\ ExplicitMode /\ Folded /\ Async
    /\ count_producers(op.body, "f") = 0

C29_WitnessInnerLoop ==
    /\ pc = "folded" /\ ExplicitMode /\ Folded
    /\ \E l \in Loops(stmt) : l.name = "x" /\ \E k \in DOMAIN dims_folded : AssertedInFront(l, dims_folded[k])


\* ---- C30 ----
\* some iteration of a loop requires a value of the buffer that the same
\* iteration does not provide: the value comes from another iteration
PassesValues(box) ==
    \E d \in DOMAIN box : \E i \in SymDom :
        \/ At(box[d].rmin, i) < At(box[d].pmin, i)
        \/ At(box[d].rmax, i) > At(box[d].pmax, i)

\* a pass without an error over a serial or unrolled loop around a loop
LoopInLoop ==
    /\ pc = "folded"
    /\ op.body.node = "For"
    /\ HasInner
    /\ OuterLoop.for_type \in {"Serial", "Unrolled"}

\* C30: when some iteration of a serial or unrolled loop requires values of
\* the buffer that it does not provide itself, no fold is recorded at a loop
\* inside it: the folds of the pass are those made at the loop itself, also
\* when the last of them was made with no overlap between iterations proven.
C30_NoFoldInsideALoopThatPassesValues ==
    (LoopInLoop /\ PassesValues(OuterLoop.box)) =>
        /\ OuterFoldsRecorded
        /\ OnlyOuterFolds

\* values pass between the iterations of the outer loop, which folds
\* nothing, and the loop inside, which is folded on its own, is left alone
C30_Witness ==
    /\ LoopInLoop /\ PassesValues(OuterLoop.box)
    /\ OuterFolds = <<>>
    /\ FoldInside(StorageFolding(InnerAlone, env))
    /\ dims_folded = <<>>

\* the same after a fold at the outer loop with no overlap proven
C30_WitnessAfterFold ==
    /\ LoopInLoop /\ PassesValues(OuterLoop.box)
    /\ OuterFolds # <<>> /\ ~Overlaps(LastOuterFold)
    /\ FoldInside(StorageFolding(InnerAlone, env))
    /\ Len(dims_folded) = Len(OuterFolds)
    /\ \A l \in InnerLoopsOf(stmt) : Assertions(l.body) = {}

\* no value passes between iterations and the loop inside is folded
C30_WitnessDescends ==
    /\ LoopInLoop /\ ~PassesValues(OuterLoop.box)
    /\ Len(dims_folded) > Len(OuterFolds)

====
